---- MODULE Spec2Model ----
(***************************************************************************)
(* PinchBench result-correlation and grading engine.                       *)
(*                                                                         *)
(* Part I models src/scripts/lib_agent.py: one run of                      *)
(* execute_openclaw_task / run_openclaw_prompt over the agent's session    *)
(* store (~/.openclaw/agents/<dir>/sessions), with the external agent      *)
(* process as the environment.                                             *)
(* Part II models src/scripts/lib_grading.py: grade_task and its helpers,  *)
(* with scores as exact rationals.                                         *)
(***************************************************************************)
EXTENDS Integers, Sequences, FiniteSets, TLC

VARIABLES
    now,      \* wall clock, seconds (time.time())
    dirs,     \* agent store directories that exist under ~/.openclaw/agents
    files,    \* the *.jsonl transcript files, as records
    index,    \* per directory, the content of sessions/sessions.json
    run,      \* per run, the locals of execute_openclaw_task / run_openclaw_prompt
    grade,    \* the locals of grade_task
    judge,    \* the locals of _grade_llm_judge around _parse_judge_response
    lookup,   \* the locals of a call of _resolve_session_id_from_store
    bench,    \* the benchmark loop: the identities it made, ensured and ran
    scan      \* the locals of a call of _find_recent_session_path

vars == <<now, dirs, files, index, run, grade, judge, lookup, bench, scan>>

-----------------------------------------------------------------------------
(* Bounds of the model *)

NRuns == 2          \* runs issued by the benchmark loop
MaxLines == 2       \* lines of a transcript file

(* Constants of the program *)

MaxAttempts == 6        \* for attempt in range(6)
BackoffSeconds == 1     \* time.sleep(1.0)
ToleranceSeconds == 5   \* tolerance_seconds = 5.0
UnknownExit == -1       \* exit_code = -1

Runs == 1..NRuns

-----------------------------------------------------------------------------
(* Agent identities and store directories.  An identity is its sequence of *)
(* characters, so that replace(":", "-") is computed, not assumed.         *)

IdColon == <<"a", ":", "b">>
IdDash == <<"a", "-", "b">>
AgentIds == {IdColon, IdDash}

\* agent_id.replace(":", "-")
Normalize(id) == [i \in DOMAIN id |-> IF id[i] = ":" THEN "-" ELSE id[i]]

DirNames == AgentIds \cup {Normalize(id) : id \in AgentIds}

\* _get_agent_store_dir: the direct directory if it exists, else the
\* normalized one if it exists, else the direct one.
GetAgentStoreDir(agent_id, D) ==
    IF agent_id \in D THEN agent_id
    ELSE IF Normalize(agent_id) \in D THEN Normalize(agent_id)
    ELSE agent_id

-----------------------------------------------------------------------------
(* File names (without the .jsonl suffix) and session ids.                 *)

None == <<"None", 0>>         \* Python None
EmptyStr == <<"", 0>>         \* the empty string
OldName == <<"old", 0>>       \* a transcript left by an earlier benchmark
UuidName(r) == <<"uuid", r>>  \* the id the tool invents for run r
SessName(r) == <<"sess", r>>  \* session_id = f"{task_id}_{millis}" of run r

Truthy(x) == x \notin {None, EmptyStr}

SessionFiles(F, d) == {f \in F : f.dir = d}
HasFile(F, d, n) == \E f \in F : f.dir = d /\ f.name = n
TheFile(F, d, n) == CHOOSE f \in F : f.dir = d /\ f.name = n

-----------------------------------------------------------------------------
(* sessions.json *)

IndexAbsent == [kind |-> "absent", entries |-> <<>>]
IndexInvalid == [kind |-> "invalid", entries |-> <<>>]   \* not valid JSON
IndexNotMap == [kind |-> "notmap", entries |-> <<>>]     \* JSON, not an object
\* bytes that are not UTF-8, as an index cut inside a multi-byte character
IndexUndecodable == [kind |-> "undecodable", entries |-> <<>>]
IndexMap(es) == [kind |-> "map", entries |-> es]

\* an entry of the mapping: key agent:<id>:<slot>; a value that is an object
\* (isdict) with or without "sessionId" and a numeric "updatedAt"
Entry(id, slot, sid, ts) ==
    [agent |-> id, slot |-> slot, isdict |-> TRUE,
     hasSid |-> sid # None, sessionId |-> sid,
     hasTs |-> ts >= 0, updatedAt |-> ts]

\* a value of the mapping that is not an object
NonDictEntry(id, slot) == [Entry(id, slot, None, -1) EXCEPT !.isdict = FALSE]

RECURSIVE NewestEntryTakesOldest(_, _, _, _)
\* keeps the entry with the smallest updatedAt
NewestEntryTakesOldest(es, i, newest_ts, newest_entry) ==
    IF i > Len(es) THEN newest_entry
    ELSE LET e == es[i] IN
         IF e.isdict /\ e.hasSid /\ e.hasTs
            /\ (newest_entry = 0 \/ e.updatedAt < newest_ts)
         THEN NewestEntryTakesOldest(es, i + 1, e.updatedAt, i)
         ELSE NewestEntryTakesOldest(es, i + 1, newest_ts, newest_entry)

RECURSIVE NewestEntry(_, _, _, _)
\* the loop of lines 217-225 from position i on: strict >, first wins on ties
NewestEntry(es, i, newest_ts, newest_entry) ==
    IF i > Len(es) THEN newest_entry
    ELSE LET e == es[i] IN
         IF e.isdict /\ e.hasSid /\ e.hasTs /\ e.updatedAt > newest_ts
         THEN NewestEntry(es, i + 1, e.updatedAt, i)
         ELSE NewestEntry(es, i + 1, newest_ts, newest_entry)

\* sessions_payload.get(key): the entry stored under agent:<id>:<slot>
Lookup(es, id, slot) ==
    LET hit == {i \in DOMAIN es : es[i].agent = id /\ es[i].slot = slot}
    IN IF hit = {} THEN 0 ELSE CHOOSE i \in hit : TRUE

\* line 198: read_text(encoding="utf-8") raises UnicodeDecodeError, which the
\* except clause for json.JSONDecodeError does not catch
ResolveRaises(agent_id, D, idx) ==
    idx[GetAgentStoreDir(agent_id, D)].kind = "undecodable"

\* _resolve_session_id_from_store, where it returns
ResolveSessionIdFromStore(agent_id, D, idx) ==
    LET payload == idx[GetAgentStoreDir(agent_id, D)]
        es == payload.entries
        usable(i) == i # 0 /\ es[i].isdict /\ es[i].hasSid /\ Truthy(es[i].sessionId)
        main == Lookup(es, agent_id, "main")
        dflt == Lookup(es, agent_id, "default")
        newest == NewestEntry(es, 1, -1, 0)
    IN IF payload.kind # "map" THEN None
       ELSE IF usable(main) THEN es[main].sessionId
       ELSE IF usable(dflt) THEN es[dflt].sessionId
       ELSE IF newest # 0 THEN es[newest].sessionId
       ELSE None

-----------------------------------------------------------------------------
(* _find_recent_session_path: the files max() may return (directory order  *)
(* decides among files of equal mtime); {} when it returns None.           *)

\* returns nothing when no file is recent
FindRecentSessionPathRecentOnly(agent_dir, started_at, F) ==
    LET candidates == SessionFiles(F, agent_dir)
        pool == {f \in candidates : f.mtime >= started_at - ToleranceSeconds}
    IN {f \in pool : \A g \in pool : g.mtime <= f.mtime}

FindRecentSessionPath(agent_dir, started_at, F) ==
    LET candidates == SessionFiles(F, agent_dir)
        recent_candidates ==
            {f \in candidates : f.mtime >= started_at - ToleranceSeconds}
        pool == IF recent_candidates # {} THEN recent_candidates ELSE candidates
    IN {f \in pool : \A g \in pool : g.mtime <= f.mtime}

-----------------------------------------------------------------------------
(* Transcript lines.  A line is named by its text class:                   *)
(*   " "  whitespace only                                                  *)
(*   "A"  an assistant message with a full usage object                    *)
(*   "a"  an assistant message whose usage holds "input" only              *)
(*   "U"  a user message that carries a usage object                       *)
(*   "T"  an event of another type around an assistant message with usage *)
(*   "N"  valid JSON that is not an object                                 *)
(*   "X"  not valid JSON                                                   *)

BlankLine == " "
LineKinds == {BlankLine, "A", "a", "U", "T", "N", "X"}

\* not line.strip()
IsBlank(line) == line = BlankLine

\* message.usage: the fields present and their values; cost is cost.total
FullUsage ==
    [f \in {"input", "output", "cacheRead", "cacheWrite", "totalTokens", "cost"} |->
        CASE f = "input" -> 3
          [] f = "output" -> 2
          [] f = "cacheRead" -> 1
          [] f = "cacheWrite" -> 1
          [] f = "totalTokens" -> 7
          [] OTHER -> 4]
InputOnlyUsage == [f \in {"input"} |-> 3]
EmptyUsage == [f \in {} |-> 0]

\* json.loads(line), or the {"raw", "parse_error"} record on JSONDecodeError
ParseLine(line) ==
    [isobj |-> line # "N",
     type |-> IF line \in {"A", "a", "U"} THEN "message"
              ELSE IF line = "T" THEN "custom" ELSE "",
     role |-> IF line \in {"A", "a", "T"} THEN "assistant"
              ELSE IF line = "U" THEN "user" ELSE "",
     usage |-> IF line \in {"A", "U", "T"} THEN FullUsage
               ELSE IF line = "a" THEN InputOnlyUsage ELSE EmptyUsage,
     raw |-> IF line = "X" THEN line ELSE "",
     parse_error |-> line = "X"]

RECURSIVE ReadTranscriptSkipsMalformed(_)
\* drops a line that does not parse instead of keeping it
ReadTranscriptSkipsMalformed(lines) ==
    IF lines = <<>> THEN <<>>
    ELSE IF IsBlank(Head(lines)) \/ ParseLine(Head(lines)).parse_error
    THEN ReadTranscriptSkipsMalformed(Tail(lines))
    ELSE <<ParseLine(Head(lines))>> \o ReadTranscriptSkipsMalformed(Tail(lines))

RECURSIVE ReadTranscript(_)
\* lines 312-321: one event per non-blank line, in file order
ReadTranscript(lines) ==
    IF lines = <<>> THEN <<>>
    ELSE IF IsBlank(Head(lines)) THEN ReadTranscript(Tail(lines))
    ELSE <<ParseLine(Head(lines))>> \o ReadTranscript(Tail(lines))

RECURSIVE SeqsUpTo(_, _)
\* all sequences over S of length at most n
SeqsUpTo(S, n) ==
    IF n = 0 THEN {<<>>}
    ELSE LET shorter == SeqsUpTo(S, n - 1)
         IN shorter \cup {Append(q, x) : q \in shorter, x \in S}

-----------------------------------------------------------------------------
(* _extract_usage_from_transcript: entry.get(...) raises AttributeError on *)
(* an entry that is not a dict; otherwise assistant messages are summed.   *)

\* lines 337-341: the entries the loop does not skip
IsAssistantMessage(e) == e.type = "message" /\ e.role = "assistant"

RECURSIVE SumField(_, _)
\* totals[...] += usage.get(f, 0) over the counted entries
SumField(transcript, f) ==
    IF transcript = <<>> THEN 0
    ELSE LET e == Head(transcript)
         IN (IF IsAssistantMessage(e) /\ f \in DOMAIN e.usage THEN e.usage[f] ELSE 0)
            + SumField(Tail(transcript), f)

\* counts the messages of every role
ExtractUsageCountsEveryRole(transcript) ==
    [raised |-> \E i \in DOMAIN transcript : ~transcript[i].isobj,
     request_count |-> Len(SelectSeq(transcript, LAMBDA e : e.type = "message")),
     input_tokens |-> SumField(transcript, "input"),
     output_tokens |-> SumField(transcript, "output"),
     cache_read_tokens |-> SumField(transcript, "cacheRead"),
     cache_write_tokens |-> SumField(transcript, "cacheWrite"),
     total_tokens |-> SumField(transcript, "totalTokens"),
     cost_usd |-> SumField(transcript, "cost")]

ExtractUsageFromTranscript(transcript) ==
    [raised |-> \E i \in DOMAIN transcript : ~transcript[i].isobj,
     request_count |-> Len(SelectSeq(transcript, IsAssistantMessage)),
     input_tokens |-> SumField(transcript, "input"),
     output_tokens |-> SumField(transcript, "output"),
     cache_read_tokens |-> SumField(transcript, "cacheRead"),
     cache_write_tokens |-> SumField(transcript, "cacheWrite"),
     total_tokens |-> SumField(transcript, "totalTokens"),
     cost_usd |-> SumField(transcript, "cost")]

\* the totals before the loop, lines 326-334
NoUsage ==
    [raised |-> FALSE, request_count |-> 0, input_tokens |-> 0,
     output_tokens |-> 0, cache_read_tokens |-> 0, cache_write_tokens |-> 0,
     total_tokens |-> 0, cost_usd |-> 0]

-----------------------------------------------------------------------------
(* Status classification, lines 413-421 (and 489-497): five assignments in *)
(* program order, each later one overriding the earlier.                   *)

NotFoundText == "openclaw command not found"
StderrTexts == {"", NotFoundText}

\* applies the timeout rule last, so that it overrides the error rules
ClassifyStatusTimeoutLast(timed_out, transcript, exit_code, stderr) ==
    LET s1 == "success"
        s3 == IF transcript = <<>> THEN "error" ELSE s1
        s4 == IF exit_code \notin {0, UnknownExit} /\ ~timed_out THEN "error" ELSE s3
        s5 == IF stderr # "" /\ stderr = NotFoundText THEN "error" ELSE s4
        s2 == IF timed_out THEN "timeout" ELSE s5
    IN s2

\* trusts exit code 0: the empty-transcript rule is skipped for it
ClassifyStatusTrustsExit(timed_out, transcript, exit_code, stderr) ==
    LET s1 == "success"
        s2 == IF timed_out THEN "timeout" ELSE s1
        s3 == IF transcript = <<>> /\ exit_code # 0 THEN "error" ELSE s2
        s4 == IF exit_code \notin {0, UnknownExit} /\ ~timed_out THEN "error" ELSE s3
        s5 == IF stderr # "" /\ stderr = NotFoundText THEN "error" ELSE s4
    IN s5

ClassifyStatus(timed_out, transcript, exit_code, stderr) ==
    LET s1 == "success"
        s2 == IF timed_out THEN "timeout" ELSE s1
        s3 == IF transcript = <<>> THEN "error" ELSE s2
        s4 == IF exit_code \notin {0, UnknownExit} /\ ~timed_out THEN "error" ELSE s3
        s5 == IF stderr # "" /\ stderr = NotFoundText THEN "error" ELSE s4
    IN s5

-----------------------------------------------------------------------------
(* One run: execute_openclaw_task (kind "task") or run_openclaw_prompt     *)
(* (kind "prompt").                                                        *)

RunKinds == {"task", "prompt"}

IdleRun ==
    [pc |-> "idle", kind |-> "task", agent |-> IdDash, started_at |-> 0,
     unlink_failed |-> FALSE, purged |-> {}, written |-> 0,
     timed_out |-> FALSE, exit_code |-> UnknownExit, stderr |-> "",
     agent_dir |-> IdDash, attempt |-> 0, sleeps |-> 0,
     via |-> "", src |-> -1, src_lines |-> <<>>, loaded |-> FALSE,
     transcript |-> <<>>, usage |-> NoUsage, status |-> "", raised_in |-> ""]

InFlight(r) == run[r].pc \in {"prepared", "running", "loading"}
Finished(r) == run[r].pc \in {"returned", "raised"}

\* cleanup_agent_sessions(agent_id) on the store: the directory it purges is
\* <agents>/<agent_id>/sessions, whatever _get_agent_store_dir would say;
\* stuck are the *.jsonl files whose unlink raised OSError, idx_stuck says
\* the same of sessions.json.
CleanupFiles(agent_id, F, stuck) ==
    (F \ SessionFiles(F, agent_id)) \cup stuck

CleanupIndex(agent_id, idx, idx_stuck) ==
    IF idx_stuck THEN idx ELSE [idx EXCEPT ![agent_id] = IndexAbsent]

\* lines 364-379 (446-456): purge the sessions, take start_time, prepare the
\* workspace.  fixture_ok = FALSE is prepare_task_workspace re-raising
\* FileNotFoundError; run_openclaw_prompt copies no fixture.
Begin(r, E) ==
    /\ run[r].pc = "idle"
    /\ \E a \in AgentIds, k \in E.kinds, fixture_ok \in BOOLEAN :
       \E stuck \in SUBSET SessionFiles(files, a) :
       \E idx_stuck \in (IF index[a].kind = "absent" THEN {FALSE} ELSE BOOLEAN) :
          /\ k = "prompt" => fixture_ok
          /\ files' = CleanupFiles(a, files, stuck)
          /\ index' = CleanupIndex(a, index, idx_stuck)
          /\ run' = [run EXCEPT ![r] =
                       [@ EXCEPT !.pc = IF fixture_ok THEN "prepared" ELSE "raised",
                                 !.raised_in = IF fixture_ok THEN "" ELSE "prepare",
                                 !.kind = k, !.agent = a, !.started_at = now,
                                 !.unlink_failed = (stuck # {}) \/ idx_stuck,
                                 !.purged = {f.writer :
                                     f \in SessionFiles(files, a) \ stuck}]]
    /\ UNCHANGED <<now, dirs, grade, judge, lookup, bench, scan>>

\* entering _load_transcript: agent_dir is resolved once, line 247
EnterLoad(rec, D) ==
    [rec EXCEPT !.pc = "loading", !.agent_dir = GetAgentStoreDir(rec.agent, D)]

\* lines 381-398: subprocess.run starts the agent process
Launch(r) ==
    /\ run[r].pc = "prepared"
    /\ run' = [run EXCEPT ![r].pc = "running"]
    /\ UNCHANGED <<now, dirs, files, index, grade, judge, lookup, bench, scan>>

\* lines 406-409: FileNotFoundError, the executable is missing; exit_code
\* keeps its initial -1 and the run goes on to _load_transcript
LaunchFails(r) ==
    /\ run[r].pc = "prepared"
    /\ run' = [run EXCEPT ![r] = EnterLoad([@ EXCEPT !.stderr = NotFoundText], dirs)]
    /\ UNCHANGED <<now, dirs, files, index, grade, judge, lookup, bench, scan>>

\* The agent process of run r (the external tool) writes its transcript:
\* into the directory named by the identity or by its normalized form, under
\* a name of its own or the requested session id, and may record the session
\* in sessions.json under the key agent:<id>:main.  The write may come while
\* the process runs or, delayed, while the caller already polls.
ProcWriteWhen(r, E, pcs) ==
    /\ run[r].pc \in pcs
    /\ run[r].written = 0
    /\ \E d \in {run[r].agent, Normalize(run[r].agent)},
          n \in {UuidName(r), SessName(r)} \cap E.names,
          lines \in E.contents,
          indexed \in E.indexed :
          /\ files' = {f \in files : ~(f.dir = d /\ f.name = n)} \cup
                        {[dir |-> d, name |-> n, mtime |-> now,
                          lines |-> lines, writer |-> r]}
          /\ dirs' = dirs \cup {d}
          /\ index' = IF indexed
                      THEN [index EXCEPT ![d] =
                               IndexMap(<<Entry(run[r].agent, "main", n, now)>>)]
                      ELSE index
    /\ run' = [run EXCEPT ![r].written = 1]
    /\ UNCHANGED <<now, grade, judge, lookup, bench, scan>>

ProcWrite(r, E) ==
    ProcWriteWhen(r, E, IF E.delayed THEN {"running", "loading"} ELSE {"running"})

\* the delayed write comes when the caller has already returned
LateWrite(r, E) == ProcWriteWhen(r, E, {"returned"})

\* lines 399-405: the process exits (stdout, stderr, returncode) or
\* subprocess.run raises TimeoutExpired; then _load_transcript is entered
Outcomes(E) ==
    [timed_out : {FALSE}, exit_code : E.exit_codes, stderr : E.stderrs]
    \cup [timed_out : {TRUE}, exit_code : {UnknownExit}, stderr : E.stderrs]

ProcEnd(r, E) ==
    /\ run[r].pc = "running"
    /\ \E o \in Outcomes(E) :
          run' = [run EXCEPT ![r] =
                     EnterLoad([@ EXCEPT !.timed_out = o.timed_out,
                                         !.exit_code = o.exit_code,
                                         !.stderr = o.stderr], dirs)]
    /\ UNCHANGED <<now, dirs, files, index, grade, judge, lookup, bench, scan>>

-----------------------------------------------------------------------------
(* _load_transcript, lines 257-294: one pass of the loop body.  The result *)
(* is the set of selections the pass may make, {} when all three           *)
(* strategies fail.                                                        *)

\* tries the caller's session id before the directory scan
ProbeOnceDirectFirst(agent_id, session_id, agent_dir, started_at, D, F, idx) ==
    LET resolved_session_id == ResolveSessionIdFromStore(agent_id, D, idx)
        recent == FindRecentSessionPath(agent_dir, started_at, F)
    IN IF Truthy(resolved_session_id) /\ HasFile(F, agent_dir, resolved_session_id)
       THEN {[via |-> "index", file |-> TheFile(F, agent_dir, resolved_session_id)]}
       ELSE IF HasFile(F, agent_dir, session_id)
       THEN {[via |-> "direct", file |-> TheFile(F, agent_dir, session_id)]}
       ELSE IF recent # {}
       THEN {[via |-> "glob", file |-> f] : f \in recent}
       ELSE {}

\* scans the directory before it asks the index
ProbeOnceScanFirst(agent_id, session_id, agent_dir, started_at, D, F, idx) ==
    LET resolved_session_id == ResolveSessionIdFromStore(agent_id, D, idx)
        recent == FindRecentSessionPath(agent_dir, started_at, F)
    IN IF recent # {}
       THEN {[via |-> "glob", file |-> f] : f \in recent}
       ELSE IF Truthy(resolved_session_id) /\ HasFile(F, agent_dir, resolved_session_id)
       THEN {[via |-> "index", file |-> TheFile(F, agent_dir, resolved_session_id)]}
       ELSE IF HasFile(F, agent_dir, session_id)
       THEN {[via |-> "direct", file |-> TheFile(F, agent_dir, session_id)]}
       ELSE {}

ProbeOnce(agent_id, session_id, agent_dir, started_at, D, F, idx) ==
    LET resolved_session_id == ResolveSessionIdFromStore(agent_id, D, idx)
        recent == FindRecentSessionPath(agent_dir, started_at, F)
    IN IF Truthy(resolved_session_id) /\ HasFile(F, agent_dir, resolved_session_id)
       THEN {[via |-> "index", file |-> TheFile(F, agent_dir, resolved_session_id)]}
       ELSE IF recent # {}
       THEN {[via |-> "glob", file |-> f] : f \in recent}
       ELSE IF HasFile(F, agent_dir, session_id)
       THEN {[via |-> "direct", file |-> TheFile(F, agent_dir, session_id)]}
       ELSE {}

\* sleeps after the last pass as well
ShouldSleepAfterEveryPass(attempt) == attempt < MaxAttempts

\* line 293: if attempt < 5, with attempt the loop variable of the pass
ShouldSleep(attempt) == attempt < MaxAttempts - 1

\* line 257: the loop goes on while passes remain
MorePasses(attempt) == attempt + 1 < MaxAttempts

\* lines 410-435 (487-509): what follows _load_transcript.  The usage is
\* extracted by execute_openclaw_task only; an exception there propagates.
Complete(rec, transcript) ==
    LET usage == IF rec.kind = "task"
                 THEN ExtractUsageFromTranscript(transcript) ELSE NoUsage
        loaded == [rec EXCEPT !.loaded = TRUE, !.transcript = transcript]
    IN IF usage.raised
       THEN [loaded EXCEPT !.pc = "raised", !.raised_in = "usage"]
       ELSE [loaded EXCEPT !.pc = "returned", !.usage = usage,
                           !.status = ClassifyStatus(rec.timed_out, transcript,
                                                     rec.exit_code, rec.stderr)]

\* a pass whose index lookup raises: the exception leaves _load_transcript
\* and its caller
ProbeRaises(r) ==
    /\ run[r].pc = "loading"
    /\ ResolveRaises(run[r].agent, dirs, index)
    /\ run' = [run EXCEPT ![r].pc = "raised", ![r].raised_in = "index",
                          ![r].attempt = @ + 1]
    /\ UNCHANGED <<now, dirs, files, index, grade, judge, lookup, bench, scan>>

\* a pass that selects a file: the loop breaks, the file is read and the
\* function runs to its return
ProbeFinds(r) ==
    /\ run[r].pc = "loading"
    /\ ~ResolveRaises(run[r].agent, dirs, index)
    /\ \E sel \in ProbeOnce(run[r].agent, SessName(r), run[r].agent_dir,
                            run[r].started_at, dirs, files, index) :
          run' = [run EXCEPT ![r] =
                     Complete([@ EXCEPT !.attempt = @ + 1, !.via = sel.via,
                                        !.src = sel.file.writer,
                                        !.src_lines = sel.file.lines],
                              ReadTranscript(sel.file.lines))]
    /\ UNCHANGED <<now, dirs, files, index, grade, judge, lookup, bench, scan>>

\* a pass that selects nothing and is not the last: sleep the backoff
ProbeSleeps(r) ==
    /\ run[r].pc = "loading"
    /\ ~ResolveRaises(run[r].agent, dirs, index)
    /\ ProbeOnce(run[r].agent, SessName(r), run[r].agent_dir,
                 run[r].started_at, dirs, files, index) = {}
    /\ MorePasses(run[r].attempt)
    /\ run' = [run EXCEPT ![r].attempt = @ + 1,
                          ![r].sleeps = IF ShouldSleep(run[r].attempt)
                                        THEN @ + 1 ELSE @]
    /\ now' = IF ShouldSleep(run[r].attempt) THEN now + BackoffSeconds ELSE now
    /\ UNCHANGED <<dirs, files, index, grade, judge, lookup, bench, scan>>

\* the last pass selects nothing: lines 296-310, return []
ProbeGivesUp(r) ==
    /\ run[r].pc = "loading"
    /\ ~ResolveRaises(run[r].agent, dirs, index)
    /\ ProbeOnce(run[r].agent, SessName(r), run[r].agent_dir,
                 run[r].started_at, dirs, files, index) = {}
    /\ ~MorePasses(run[r].attempt)
    /\ run' = [run EXCEPT ![r] =
                  Complete([@ EXCEPT !.attempt = @ + 1, !.via = "none",
                                     !.sleeps = IF ShouldSleep(run[r].attempt)
                                                THEN @ + 1 ELSE @],
                           <<>>)]
    /\ now' = IF ShouldSleep(run[r].attempt) THEN now + BackoffSeconds ELSE now
    /\ UNCHANGED <<dirs, files, index, grade, judge, lookup, bench, scan>>

-----------------------------------------------------------------------------------------------------------------------------------------------------
(* Specifications of Part I *)

NoGrade == [pc |-> "none"]
NoJudge == [pc |-> "none"]
NoLookup == [pc |-> "none"]
NoBench == [pc |-> "none"]
NoScan == [pc |-> "none"]

\* the store as earlier runs and the tool left it: any directories, and in
\* at most one of them an old transcript, older or younger than the
\* tolerance window, with or without an index naming it
OldFile(d, t) ==
    [dir |-> d, name |-> OldName, mtime |-> t, lines |-> <<"A">>, writer |-> 0]

OldIndexes(d) ==
    {IndexAbsent, IndexInvalid, IndexNotMap, IndexUndecodable,
     IndexMap(<<Entry(d, "other", OldName, 1)>>)}

InitClock == now = ToleranceSeconds + 1

InitEmptyStore ==
    /\ InitClock
    /\ dirs \in SUBSET DirNames
    /\ files = {}
    /\ index = [d \in DirNames |-> IndexAbsent]

InitOldStore ==
    /\ InitClock
    /\ dirs \in SUBSET DirNames
    /\ \E d \in dirs, t \in {0, now} : \E ix \in OldIndexes(d) :
          /\ files = {OldFile(d, t)}
          /\ index = [e \in DirNames |-> IF e = d THEN ix ELSE IndexAbsent]

InitRuns ==
    /\ run = [r \in Runs |-> IdleRun]
    /\ grade = NoGrade
    /\ judge = NoJudge
    /\ lookup = NoLookup
    /\ bench = NoBench
    /\ scan = NoScan

\* What the environment of a run may do: the kinds of call, the lines the
\* process writes, how it ends, whether its write may come after it ended,
\* the names it writes under and whether it records them in the index.
AnyOutcome ==
    [kinds |-> RunKinds,
     contents |-> SeqsUpTo(LineKinds, MaxLines),
     exit_codes |-> {0, 1, UnknownExit},
     stderrs |-> StderrTexts,
     delayed |-> TRUE,
     names |-> {UuidName(r) : r \in Runs},
     indexed |-> {FALSE}]

AnyStore ==
    [kinds |-> RunKinds,
     contents |-> {<<"A">>},
     exit_codes |-> {0},
     stderrs |-> {""},
     delayed |-> TRUE,
     names |-> {UuidName(r) : r \in Runs} \cup {SessName(r) : r \in Runs},
     indexed |-> BOOLEAN]

\* a task run whose process writes before it ends, under a name of its own
\* and without touching the index
LeanRun ==
    [AnyStore EXCEPT !.kinds = {"task"}, !.delayed = FALSE,
                     !.names = {UuidName(r) : r \in Runs},
                     !.indexed = {FALSE}]

RunStep(r, E) ==
    \/ Begin(r, E)
    \/ Launch(r)
    \/ LaunchFails(r)
    \/ ProcWrite(r, E)
    \/ ProcEnd(r, E)
    \/ ProbeFinds(r)
    \/ ProbeSleeps(r)
    \/ ProbeGivesUp(r)

\* Spec: one run over a store without transcripts; the process may end in
\* any way and write any transcript
Init == InitEmptyStore /\ InitRuns
Next == RunStep(1, AnyOutcome)
Spec == Init /\ [][Next]_vars

\* SpecStore: one run over a store that earlier runs left behind
InitStore == (InitEmptyStore \/ InitOldStore) /\ InitRuns
NextStore == RunStep(1, AnyStore) \/ ProbeRaises(1)
SpecStore == InitStore /\ [][NextStore]_vars

\* SpecLate: one run over any store whose process may write its transcript
\* and the index at any time, also after the caller has returned
InitLate == InitStore
NextLate == RunStep(1, AnyStore) \/ ProbeRaises(1) \/ LateWrite(1, AnyStore)
SpecLate == InitLate /\ [][NextLate]_vars

\* SpecSerial: the benchmark loop, each call returning (or raising) before
\* the next one starts
MayStart(r) == \A q \in Runs : q < r => Finished(q)

BeginInTurn(r, E) == MayStart(r) /\ Begin(r, E)

InitSerial == InitStore
NextSerial ==
    \E r \in Runs :
       \/ BeginInTurn(r, LeanRun)
       \/ Launch(r)
       \/ LaunchFails(r)
       \/ ProcWrite(r, LeanRun)
       \/ ProcEnd(r, LeanRun)
       \/ ProbeFinds(r)
       \/ ProbeSleeps(r)
       \/ ProbeGivesUp(r)
       \/ ProbeRaises(r)
SpecSerial == InitSerial /\ [][NextSerial]_vars

\* SpecConc: runs that overlap in time
InitConc == InitEmptyStore /\ InitRuns
NextConc == \E r \in Runs : RunStep(r, LeanRun)
SpecConc == InitConc /\ [][NextConc]_vars

-----------------------------------------------------------------------------
(* Part II: grading.  Scores are exact rationals [n, d] with d > 0; the    *)
(* numbers of the inputs are given in tenths.                              *)

Abs(x) == IF x < 0 THEN -x ELSE x

RECURSIVE Gcd(_, _)
Gcd(a, b) == IF b = 0 THEN a ELSE Gcd(b, a % b)

\* the rational n/d in lowest terms, d # 0
Rat(n, d) ==
    LET g == Gcd(Abs(n), Abs(d))
        sgn == IF d < 0 THEN -1 ELSE 1
    IN [n |-> sgn * (n \div g), d |-> sgn * (d \div g)]

Tenths(x) == Rat(x, 10)
RatZero == Rat(0, 1)
RatOne == Rat(1, 1)
RatLe(a, b) == a.n * b.d <= b.n * a.d

\* A Python value as scoring code or the judge's JSON may hold it:
\* a number (int, float or bool: True is Num(10)), a numeric string such as
\* "0.5", other text, None, a list.
Num(x) == [t |-> "num", v |-> x]
Str(x) == [t |-> "str", v |-> x]
Text == [t |-> "text", v |-> 0]
Null == [t |-> "null", v |-> 0]
List == [t |-> "list", v |-> 0]
Absent == [t |-> "absent", v |-> 0]    \* the key is missing

\* isinstance(v, (int, float))
IsNumber(x) == x.t = "num"
\* float(v) returns; it raises ValueError on other text, TypeError on None
\* and on a list
Floatable(x) == x.t \in {"num", "str"}

Keys == {<<"a">>, <<"b">>}

\* the mappings from some of the keys to the values of V
Mappings(V) == UNION {[K -> V] : K \in SUBSET Keys}

EmptyMap == [k \in {} |-> Null]

RECURSIVE SumOver(_, _)
SumOver(m, K) ==
    IF K = {} THEN 0
    ELSE LET k == CHOOSE x \in K : TRUE IN m[k].v + SumOver(m, K \ {k})

\* divides by the number of all values, numeric or not
AverageScoresOverAllKeys(scores) ==
    LET values == {k \in DOMAIN scores : IsNumber(scores[k])}
    IN IF values = {} THEN RatZero
       ELSE Rat(SumOver(scores, values), 10 * Cardinality(DOMAIN scores))

\* _average_scores
AverageScores(scores) ==
    LET values == {k \in DOMAIN scores : IsNumber(scores[k])}
    IN IF values = {} THEN RatZero
       ELSE Rat(SumOver(scores, values), 10 * Cardinality(values))

\* keeps the entries _average_scores counts and no other
NormalizeScoreDictNumbersOnly(scores) ==
    [k \in {x \in DOMAIN scores : IsNumber(scores[x])} |-> Tenths(scores[k].v)]

\* _normalize_score_dict
NormalizeScoreDict(scores) ==
    [k \in {x \in DOMAIN scores : Floatable(scores[x])} |-> Tenths(scores[k].v)]

\* notes are sequences of text atoms; "" is <<>>
NoNotes == <<>>

GradeResult(score, grading_type, breakdown, notes) ==
    [ok |-> TRUE, exc |-> "", score |-> score, max_score |-> RatOne,
     grading_type |-> grading_type, breakdown |-> breakdown, notes |-> notes]

Raise(exc) ==
    [ok |-> FALSE, exc |-> exc, score |-> RatZero, max_score |-> RatOne,
     grading_type |-> "", breakdown |-> EmptyMap, notes |-> NoNotes]

NoResult == Raise("unset")

\* _extract_grading_code: task.automated_checks is None, text without a
\* python fence, a python fence around nothing, or a fence around code
CheckKinds == {"none", "prose", "emptyfence", "code"}
\* takes any text of the task for scoring code
ExtractGradingCodeAnyText(checks) == IF checks = "none" THEN "" ELSE "code"

ExtractGradingCode(checks) == IF checks = "code" THEN "code" ELSE ""

\* What the task's source does: exec raises, it defines no callable grade,
\* grade raises, or grade returns a value (a mapping or something else).
Behaviours(V) ==
    [kind : {"load_raises", "no_grade", "grade_raises"}, ismap : {FALSE},
     ret : {EmptyMap}]
    \cup [kind : {"returns"}, ismap : {FALSE}, ret : {EmptyMap}]
    \cup [kind : {"returns"}, ismap : {TRUE}, ret : Mappings(V)]

NoBehaviour == [kind |-> "none", ismap |-> FALSE, ret |-> EmptyMap]

\* _grade_automated
GradeAutomated(checks, b) ==
    IF ExtractGradingCode(checks) = ""
    THEN GradeResult(RatZero, "automated", EmptyMap,
                     <<"No automated grading code found">>)
    ELSE IF b.kind = "load_raises" THEN Raise("exec")
    ELSE IF b.kind = "no_grade"
    THEN GradeResult(RatZero, "automated", EmptyMap,
                     <<"Automated grading function missing">>)
    ELSE IF b.kind = "grade_raises" THEN Raise("grade")
    ELSE LET scores == IF b.ismap THEN b.ret ELSE EmptyMap
         IN GradeResult(AverageScores(scores), "automated",
                        NormalizeScoreDict(scores), NoNotes)

\* What _parse_judge_response yields: {} (kind "empty"), an exception on a
\* transcript event that is not an object (kind "bad_event"), or the parsed
\* object with its scores, total and notes.
JudgeReplies(V, Totals) ==
    [kind : {"empty", "bad_event"}, scores : {Absent}, map : {EmptyMap},
     total : {Absent}, notes : {Absent}]
    \cup [kind : {"obj"}, scores : {Absent, Null, List}, map : {EmptyMap},
          total : Totals, notes : {Absent, Text}]
    \cup [kind : {"obj"}, scores : {[t |-> "map", v |-> 0]}, map : Mappings(V),
          total : Totals, notes : {Absent, Text}]

NoReply ==
    [kind |-> "none", scores |-> Absent, map |-> EmptyMap, total |-> Absent,
     notes |-> Absent]

\* averages the scores whatever the total says
GradeLlmJudgeIgnoresTotal(parsed) ==
    LET isdict == parsed.scores.t \in {"absent", "map"}
        breakdown == parsed.map
    IN IF parsed.kind = "bad_event" \/ ~isdict THEN Raise("AttributeError")
       ELSE GradeResult(AverageScores(breakdown),
                        "llm_judge", NormalizeScoreDict(breakdown),
                        IF parsed.notes.t = "text" THEN <<"notes">> ELSE NoNotes)

\* _grade_llm_judge from line 146 on
GradeLlmJudge(parsed) ==
    LET isdict == parsed.scores.t \in {"absent", "map"}   \* parsed.get("scores", {})
        breakdown == parsed.map
        total_none == parsed.total.t \in {"absent", "null"}
    IN IF parsed.kind = "bad_event" THEN Raise("AttributeError")
       ELSE IF total_none /\ ~isdict THEN Raise("AttributeError")
       ELSE IF ~total_none /\ ~Floatable(parsed.total) THEN Raise("ValueError")
       ELSE IF ~isdict THEN Raise("AttributeError")
       ELSE GradeResult(IF total_none THEN AverageScores(breakdown)
                        ELSE Tenths(parsed.total.v),
                        "llm_judge", NormalizeScoreDict(breakdown),
                        IF parsed.notes.t = "text" THEN <<"notes">> ELSE NoNotes)

\* task.grading_weights: None, or a mapping that may lack either key
NoWeights == [given |-> FALSE, automated |-> Absent, llm_judge |-> Absent]
Weights(W) ==
    {NoWeights} \cup
    [given : {TRUE}, automated : {Absent} \cup {Num(w) : w \in W},
     llm_judge : {Absent} \cup {Num(w) : w \in W}]

\* weights.get(name, 0.5) on task.grading_weights or the default mapping
ResolveWeight(w) == IF w.t = "absent" THEN 5 ELSE w.v

Prefixed(prefix, breakdown) ==
    [k \in {<<prefix>> \o x : x \in DOMAIN breakdown} |-> breakdown[Tail(k)]]

Merge(f, g) ==
    [k \in DOMAIN f \cup DOMAIN g |-> IF k \in DOMAIN g THEN g[k] ELSE f[k]]

\* " | ".join(filter(None, [a, b]))
JoinNotes(a, b) ==
    IF a = NoNotes THEN b
    ELSE IF b = NoNotes THEN a
    ELSE a \o <<" | ">> \o b

\* resolves a weight the task does not specify to 1.0
EffectiveWeightsDefaultOne(weights) ==
    LET w0a == IF weights.automated.t = "absent" THEN 10 ELSE weights.automated.v
        w0l == IF weights.llm_judge.t = "absent" THEN 10 ELSE weights.llm_judge.v
        reset == w0a + w0l <= 0
    IN [auto_weight |-> IF reset THEN 5 ELSE w0a,
        llm_weight |-> IF reset THEN 5 ELSE w0l,
        total_weight |-> IF reset THEN 10 ELSE w0a + w0l]

\* lines 163-169: the weights _combine_grades works with, in tenths
EffectiveWeights(weights) ==
    LET falsy == ~weights.given \/
                 (weights.automated.t = "absent" /\ weights.llm_judge.t = "absent")
        w0a == IF falsy THEN 5 ELSE ResolveWeight(weights.automated)
        w0l == IF falsy THEN 5 ELSE ResolveWeight(weights.llm_judge)
        reset == w0a + w0l <= 0
    IN [auto_weight |-> IF reset THEN 5 ELSE w0a,
        llm_weight |-> IF reset THEN 5 ELSE w0l,
        total_weight |-> IF reset THEN 10 ELSE w0a + w0l]

NoEffectiveWeights == [auto_weight |-> 0, llm_weight |-> 0, total_weight |-> 0]

\* leaves out the division by the sum of the weights
CombineGradesUnnormalized(weights, auto_result, llm_result) ==
    LET w == EffectiveWeights(weights)
        a == auto_result.score
        l == llm_result.score
    IN GradeResult(Rat(a.n * l.d * w.auto_weight + l.n * a.d * w.llm_weight,
                       a.d * l.d * 10),
                   "hybrid",
                   Merge(Prefixed("automated", auto_result.breakdown),
                         Prefixed("llm_judge", llm_result.breakdown)),
                   JoinNotes(auto_result.notes, llm_result.notes))

\* _combine_grades
CombineGrades(weights, auto_result, llm_result) ==
    LET w == EffectiveWeights(weights)
        a == auto_result.score
        l == llm_result.score
    IN GradeResult(Rat(a.n * l.d * w.auto_weight + l.n * a.d * w.llm_weight,
                       a.d * l.d * w.total_weight),
                   "hybrid",
                   Merge(Prefixed("automated", auto_result.breakdown),
                         Prefixed("llm_judge", llm_result.breakdown)),
                   JoinNotes(auto_result.notes, llm_result.notes))

GradingTypes == {"automated", "llm_judge", "hybrid", "manual"}

ScoreValues == {Num(-5), Num(5), Num(8), Num(10), Str(5), Null}
TotalValues == {Absent, Null, Num(4), Num(15), Str(4), Text}
WeightValues == {-5, 0, 3, 7}

\* grade_task, first step: the automated part of modes automated and hybrid
GradeAutomatedStep ==
    /\ grade.pc = "start"
    /\ grade.task.grading_type \in {"automated", "hybrid"}
    /\ \E b \in (IF ExtractGradingCode(grade.task.checks) = ""
                 THEN {NoBehaviour} ELSE Behaviours(ScoreValues)) :
          LET res == GradeAutomated(grade.task.checks, b)
              g == [grade EXCEPT !.source = b]
          IN grade' =
                IF ~res.ok THEN [g EXCEPT !.pc = "raised", !.result = res]
                ELSE IF grade.task.grading_type = "automated"
                THEN [g EXCEPT !.pc = "returned", !.auto = res, !.result = res]
                ELSE [g EXCEPT !.pc = "judging", !.auto = res]
    /\ UNCHANGED <<now, dirs, files, index, run, judge, lookup, bench, scan>>

\* grade_task, the judge part of modes llm_judge and hybrid, and for hybrid
\* the combination that follows it
GradeJudgeStep ==
    /\ \/ grade.pc = "start" /\ grade.task.grading_type = "llm_judge"
       \/ grade.pc = "judging"
    /\ \E parsed \in JudgeReplies(ScoreValues, TotalValues) :
          LET res == GradeLlmJudge(parsed)
              g == [grade EXCEPT !.parsed = parsed]
          IN grade' =
                IF ~res.ok THEN [g EXCEPT !.pc = "raised", !.result = res]
                ELSE IF grade.task.grading_type = "llm_judge"
                THEN [g EXCEPT !.pc = "returned", !.llm = res, !.result = res]
                ELSE [g EXCEPT !.pc = "returned", !.llm = res,
                         !.eff = EffectiveWeights(grade.task.weights),
                         !.result = CombineGrades(grade.task.weights, grade.auto, res)]
    /\ UNCHANGED <<now, dirs, files, index, run, judge, lookup, bench, scan>>

\* grade_task, line 78: any other grading type
GradeUnknownType ==
    /\ grade.pc = "start"
    /\ grade.task.grading_type \notin {"automated", "llm_judge", "hybrid"}
    /\ grade' = [grade EXCEPT !.pc = "raised", !.result = Raise("ValueError")]
    /\ UNCHANGED <<now, dirs, files, index, run, judge, lookup, bench, scan>>

\* SpecGrade: grade_task on any task
InitGrade ==
    /\ now = 0
    /\ dirs = {}
    /\ files = {}
    /\ index = [d \in DirNames |-> IndexAbsent]
    /\ run = [r \in Runs |-> IdleRun]
    /\ judge = NoJudge
    /\ lookup = NoLookup
    /\ bench = NoBench
    /\ scan = NoScan
    /\ \E gt \in GradingTypes, ck \in CheckKinds, w \in Weights(WeightValues) :
          \* the fields a mode does not read are left at their defaults
          /\ gt \notin {"automated", "hybrid"} => ck = "none"
          /\ gt # "hybrid" => w = NoWeights
          /\ grade = [pc |-> "start",
                      task |-> [grading_type |-> gt, checks |-> ck, weights |-> w],
                      source |-> NoBehaviour, parsed |-> NoReply,
                      eff |-> NoEffectiveWeights,
                      auto |-> NoResult, llm |-> NoResult, result |-> NoResult]

NextGrade == GradeAutomatedStep \/ GradeJudgeStep \/ GradeUnknownType
SpecGrade == InitGrade /\ [][NextGrade]_vars

-----------------------------------------------------------------------------
(* Part III: _parse_judge_response on the judge's reply.  The reply is a   *)
(* sequence of lexemes:                                                    *)
(*   "{" "}"   the brace characters                                        *)
(*   "s" "k"   the keys "scores": and "k": , each to be followed by an     *)
(*             object                                                      *)
(*   "t" "n" "x"  the members "total": 0.9, "notes": "ok" and "x": 0.9     *)
(*   "w"       prose, or any text that is not JSON                         *)
(*   "F" "E"   the fence opener ```json and the bare fence ```             *)

NotJson == [isdict |-> FALSE, keys |-> {}, inner |-> {}]
NoMembers == [ok |-> TRUE, next |-> 0, keys |-> {}, inner |-> {}]
BadMembers == [ok |-> FALSE, next |-> 0, keys |-> {}, inner |-> {}]

RECURSIVE ParseMembers(_, _, _)
\* the members of an object from position i up to its closing brace: keys
\* are the keys met, inner the keys of the object under "scores"
ParseMembers(toks, i, acc) ==
    IF i > Len(toks) THEN BadMembers
    ELSE LET c == toks[i] IN
         IF c = "}" THEN [acc EXCEPT !.next = i + 1]
         ELSE IF c \in {"t", "n", "x"}
         THEN ParseMembers(toks, i + 1, [acc EXCEPT !.keys = @ \cup {c}])
         ELSE IF c \in {"s", "k"} /\ i < Len(toks) /\ toks[i + 1] = "{"
         THEN LET v == ParseMembers(toks, i + 2, NoMembers)
              IN IF v.ok
                 THEN ParseMembers(toks, v.next,
                         [acc EXCEPT !.keys = @ \cup {c},
                                     !.inner = IF c = "s" THEN v.keys ELSE @])
                 ELSE BadMembers
         ELSE BadMembers

\* json.loads(text) followed by isinstance(parsed, dict): JSONDecodeError and
\* a value that is not an object both give NotJson
JsonLoads(toks) ==
    IF toks = <<>> \/ toks[1] # "{" THEN NotJson
    ELSE LET r == ParseMembers(toks, 2, NoMembers)
         IN IF r.ok /\ r.next = Len(toks) + 1
            THEN [isdict |-> TRUE, keys |-> r.keys, inner |-> r.inner]
            ELSE NotJson

\* the least position from `from` on that holds a lexeme of S, 0 if none
FirstOf(text, from, S) ==
    LET hits == {i \in from..Len(text) : text[i] \in S}
    IN IF hits = {} THEN 0 ELSE CHOOSE i \in hits : \A j \in hits : i <= j

NoMatch == [matched |-> FALSE, from |-> 0, toks |-> <<>>]

\* greedy: the block runs to the last ``` of the text
CodeBlockMatchGreedy(text) ==
    LET i == FirstOf(text, 1, {"F"})
        closers == {j \in (i + 1)..Len(text) : text[j] \in {"E", "F"}}
        j == IF i = 0 \/ closers = {} THEN 0
             ELSE CHOOSE c \in closers : \A d \in closers : d <= c
    IN IF j = 0 THEN NoMatch
       ELSE [matched |-> TRUE, from |-> i + 1, toks |-> SubSeq(text, i + 1, j - 1)]

\* re.search(r"```json\s*(.*?)\s*```", raw_text, re.DOTALL): the first
\* opener and the nearest ``` after it, which an opener supplies as well
CodeBlockMatch(text) ==
    LET i == FirstOf(text, 1, {"F"})
        j == IF i = 0 THEN 0 ELSE FirstOf(text, i + 1, {"E", "F"})
    IN IF j = 0 THEN NoMatch
       ELSE [matched |-> TRUE, from |-> i + 1, toks |-> SubSeq(text, i + 1, j - 1)]

RECURSIVE BraceDepth(_, _)
\* lines 300-312: brace_depth after the first k characters; += 1 on every
\* "{" and -= 1 on every "}"
BraceDepth(text, k) ==
    IF k = 0 THEN 0
    ELSE BraceDepth(text, k - 1)
         + (IF text[k] = "{" THEN 1 ELSE 0) - (IF text[k] = "}" THEN 1 ELSE 0)

RECURSIVE ScanBraces(_, _, _, _, _, _)
\* lines 299-314, from character i on; start is where current_json began
ScanBraces(text, i, brace_depth, start, current_json, json_candidates) ==
    IF i > Len(text) THEN json_candidates
    ELSE LET char == text[i]
             fresh == char = "{" /\ brace_depth = 0
             d1 == IF char = "{" THEN brace_depth + 1 ELSE brace_depth
             cur0 == IF fresh THEN <<>> ELSE current_json
             cur1 == IF d1 > 0 THEN Append(cur0, char) ELSE cur0
             d2 == IF char = "}" THEN d1 - 1 ELSE d1
         IN ScanBraces(text, i + 1, d2, IF fresh THEN i ELSE start, cur1,
                IF char = "}" /\ d2 = 0 /\ cur1 # <<>>
                THEN Append(json_candidates,
                            [from |-> IF fresh THEN i ELSE start, toks |-> cur1])
                ELSE json_candidates)

\* return {}
EmptyParse ==
    [found |-> FALSE, via |-> "none", from |-> 0, toks |-> <<>>, obj |-> NotJson]

\* _parse_judge_response on the joined assistant text
ParseJudgeResponse(raw_text) ==
    LET code_block_match == CodeBlockMatch(raw_text)
        json_candidates == ScanBraces(raw_text, 1, 0, 0, <<>>, <<>>)
        loads(k) == JsonLoads(json_candidates[k].toks)
        with_scores == {k \in DOMAIN json_candidates :
                           loads(k).isdict /\ "s" \in loads(k).keys}
        any_dict == {k \in DOMAIN json_candidates : loads(k).isdict}
        last(S) == CHOOSE k \in S : \A j \in S : j <= k
        pick(c, via) == [found |-> TRUE, via |-> via, from |-> c.from,
                         toks |-> c.toks, obj |-> JsonLoads(c.toks)]
    IN IF raw_text = <<>> THEN EmptyParse
       ELSE IF code_block_match.matched /\ JsonLoads(code_block_match.toks).isdict
       THEN pick(code_block_match, "fence")
       ELSE IF with_scores # {} THEN pick(json_candidates[last(with_scores)], "scores")
       ELSE IF any_dict # {} THEN pick(json_candidates[last(any_dict)], "any")
       ELSE EmptyParse

\* the parsed object as _grade_llm_judge reads it (lines 146-149)
ToReply(parsed) ==
    LET o == parsed.obj IN
    [kind |-> IF parsed.found THEN "obj" ELSE "empty",
     scores |-> IF "s" \in o.keys THEN [t |-> "map", v |-> 0] ELSE Absent,
     map |-> IF "s" \in o.keys /\ "x" \in o.inner
             THEN [k \in {<<"x">>} |-> Num(9)] ELSE EmptyMap,
     total |-> IF "t" \in o.keys THEN Num(9) ELSE Absent,
     notes |-> IF "n" \in o.keys THEN Text ELSE Absent]

MaxSegments == 3    \* pieces a reply is made of

\* the judge's JSON of the rubric, {"scores": {"x": 0.9}, "total": 0.9,
\* "notes": "ok"}, and other objects
FullObject == <<"{", "s", "{", "x", "}", "t", "n", "}">>
PlainObject == <<"{", "k", "{", "}", "}">>
NestedScores == <<"{", "k", "{", "s", "{", "}", "}", "}">>
BrokenObject == <<"{", "w", "}">>
Fenced(toks) == <<"F">> \o toks \o <<"E">>

Segments ==
    {<<"w">>, <<"{">>, <<"}">>, <<"F">>, <<"E">>,
     FullObject, PlainObject, NestedScores, BrokenObject,
     Fenced(FullObject), Fenced(PlainObject), Fenced(<<"w">>)}

RECURSIVE Replies(_)
\* the replies made of at most n segments
Replies(n) ==
    IF n = 0 THEN {<<>>}
    ELSE LET shorter == Replies(n - 1)
         IN shorter \cup {q \o g : q \in shorter, g \in Segments}

\* line 146: parsed = _parse_judge_response(...)
ParseJudgeResponseStep ==
    /\ judge.pc = "start"
    /\ judge' = [judge EXCEPT !.pc = "parsed",
                              !.parsed = ParseJudgeResponse(judge.raw_text)]
    /\ UNCHANGED <<now, dirs, files, index, run, grade, lookup, bench, scan>>

\* lines 147-159: the GradeResult built from the parsed reply
JudgeResultStep ==
    /\ judge.pc = "parsed"
    /\ judge' = [judge EXCEPT !.pc = "graded",
                              !.result = GradeLlmJudge(ToReply(judge.parsed))]
    /\ UNCHANGED <<now, dirs, files, index, run, grade, lookup, bench, scan>>

\* SpecJudge: the judge answers with any reply
InitJudge ==
    /\ now = 0
    /\ dirs = {}
    /\ files = {}
    /\ index = [d \in DirNames |-> IndexAbsent]
    /\ run = [r \in Runs |-> IdleRun]
    /\ grade = NoGrade
    /\ lookup = NoLookup
    /\ bench = NoBench
    /\ scan = NoScan
    /\ \E text \in Replies(MaxSegments) :
          judge = [pc |-> "start", raw_text |-> text, parsed |-> EmptyParse,
                   result |-> NoResult]

NextJudge == ParseJudgeResponseStep \/ JudgeResultStep
SpecJudge == InitJudge /\ [][NextJudge]_vars

-----------------------------------------------------------------------------
(* SpecIndex: _resolve_session_id_from_store on any sessions.json          *)

MaxEntries == 2     \* entries of sessions.json

\* the keys are agent:<id>:main and agent:<id>:default of both identities;
\* those of the other identity are not preferred keys of the lookup
Slots == {"main", "default"}

\* the values a key of sessions.json may hold: not an object, or an object
\* with or without sessionId (possibly empty) and updatedAt
\* the session id recorded under a key, one per key
SidOf(id, slot) ==
    UuidName((IF id = IdDash THEN 0 ELSE 2) + (IF slot = "main" THEN 1 ELSE 2))

EntryValues ==
    {NonDictEntry(id, slot) : id \in AgentIds, slot \in Slots} \cup
    UNION {{Entry(id, slot, sid, ts) :
               sid \in {None, EmptyStr, SidOf(id, slot)}, ts \in {-1, 1, 2}} :
           id \in AgentIds, slot \in Slots}

RECURSIVE EntrySeqs(_)
\* the mappings of at most n entries, in file order, each key once
EntrySeqs(n) ==
    IF n = 0 THEN {<<>>}
    ELSE LET shorter == EntrySeqs(n - 1)
             fresh(es) == {v \in EntryValues :
                             \A i \in DOMAIN es :
                                ~(es[i].agent = v.agent /\ es[i].slot = v.slot)}
         IN shorter \cup
            UNION {{Append(es, e) : e \in fresh(es)} : es \in shorter}

IndexPayloads ==
    {IndexAbsent, IndexInvalid, IndexNotMap} \cup
    {IndexMap(es) : es \in EntrySeqs(MaxEntries)}

ResolveStep ==
    /\ lookup.pc = "start"
    /\ lookup' = [lookup EXCEPT
                     !.pc = "done",
                     !.out = ResolveSessionIdFromStore(lookup.agent_id, dirs, index)]
    /\ UNCHANGED <<now, dirs, files, index, run, grade, judge, bench, scan>>

InitIndex ==
    /\ now = 0
    /\ dirs = {IdDash}
    /\ files = {}
    /\ \E payload \in IndexPayloads :
          index = [d \in DirNames |-> IF d = IdDash THEN payload ELSE IndexAbsent]
    /\ run = [r \in Runs |-> IdleRun]
    /\ grade = NoGrade
    /\ judge = NoJudge
    /\ \E a \in AgentIds : lookup = [pc |-> "start", agent_id |-> a, out |-> None]
    /\ bench = NoBench
    /\ scan = NoScan

NextIndex == ResolveStep
SpecIndex == InitIndex /\ [][NextIndex]_vars

-----------------------------------------------------------------------------
(* The benchmark loop and the identities it runs under.  A model id and an *)
(* agent id are sequences of words and separators, a word holding none of  *)
(* the characters "/", "." and "-", so that equal sequences are equal      *)
(* strings and slugify_model is computed on them.                          *)

MaxTasks == 2       \* tasks run by the loop of main

\* slugify_model: model_id.replace("/", "-").replace(".", "-")
SlugifyModel(model_id) ==
    [i \in DOMAIN model_id |-> IF model_id[i] \in {"/", "."} THEN "-" ELSE model_id[i]]

\* DEFAULT_JUDGE_MODEL = "anthropic/claude-opus-4.5"
DefaultJudgeModel == <<"anthropic", "/", "claude", "-", "opus", "-", "4", ".", "5">>
\* DEFAULT_JUDGE_AGENT_PREFIX = "bench-judge"
DefaultJudgeAgentPrefix == <<"bench", "-", "judge">>

\* benchmark.py: agent_id = f"bench-{model_slug}"
TaskAgentId(model) == <<"bench", "-">> \o SlugifyModel(model)

\* _ensure_judge_agent: agent_id = f"{judge_agent_prefix}-{model_slug}"
JudgeAgentId(judge_agent_prefix, judge_model) ==
    judge_agent_prefix \o <<"-">> \o SlugifyModel(judge_model)

\* --model: any string the command line gives
ModelArgs ==
    {DefaultJudgeModel,
     <<"openai", "/", "gpt", "-", "4", ".", "1">>,
     <<"judge">>,
     <<"judge", "/">> \o DefaultJudgeModel,
     <<"judge", "-">> \o DefaultJudgeModel,
     <<"judge", ".", "anthropic", ".", "claude", ".", "opus", ".", "4", ".", "5">>}

\* ensure_agent_exists: the agent is listed already, or `openclaw agents add`
\* creates it, or the listing or the creation fails and nothing is created
EnsureAgentExists(agent_id, agents) ==
    IF agent_id \in agents THEN {agents} ELSE {agents, agents \cup {agent_id}}

Event(op, who, id) == [op |-> op, who |-> who, id |-> id]

\* main, lines 348-357: the task agent is made, ensured and purged
BenchEnsureAgent ==
    /\ bench.pc = "start"
    /\ LET agent_id == TaskAgentId(bench.model)
       IN \E agents \in EnsureAgentExists(agent_id, bench.agents) :
             bench' = [bench EXCEPT
                          !.pc = "ready",
                          !.agent_id = agent_id,
                          !.agents = agents,
                          !.log = @ \o <<Event("ensure", "task", agent_id),
                                         Event("purge", "task", agent_id)>>]
    /\ UNCHANGED <<now, dirs, files, index, run, grade, judge, lookup, scan>>

\* main, lines 377-384: execute_openclaw_task purges the agent's sessions
\* and launches the agent under agent_id
BenchExecuteTask ==
    /\ bench.pc = "ready"
    /\ bench.tasks_done < MaxTasks
    /\ \E gt \in {"automated", "llm_judge", "hybrid"} :
          bench' = [bench EXCEPT
                       !.pc = "executed",
                       !.grading_type = gt,
                       !.log = @ \o <<Event("purge", "task", bench.agent_id),
                                      Event("run", "task", bench.agent_id)>>]
    /\ UNCHANGED <<now, dirs, files, index, run, grade, judge, lookup, scan>>

\* grade_task, automated: no judge is involved
BenchGradeAutomated ==
    /\ bench.pc = "executed"
    /\ bench.grading_type = "automated"
    /\ bench' = [bench EXCEPT !.pc = "ready", !.tasks_done = @ + 1]
    /\ UNCHANGED <<now, dirs, files, index, run, grade, judge, lookup, scan>>

\* _grade_llm_judge, line 137: _ensure_judge_agent with the defaults of
\* grade_task, which main does not override
BenchEnsureJudgeAgent ==
    /\ bench.pc = "executed"
    /\ bench.grading_type \in {"llm_judge", "hybrid"}
    /\ LET agent_id == JudgeAgentId(DefaultJudgeAgentPrefix, DefaultJudgeModel)
       IN \E agents \in EnsureAgentExists(agent_id, bench.agents) :
             bench' = [bench EXCEPT
                          !.pc = "judge_ready",
                          !.judge_id = agent_id,
                          !.agents = agents,
                          !.log = Append(@, Event("ensure", "judge", agent_id))]
    /\ UNCHANGED <<now, dirs, files, index, run, grade, judge, lookup, scan>>

\* _grade_llm_judge, lines 139-144: run_openclaw_prompt purges the sessions
\* of the identity it is given and launches the agent under it
BenchJudgePrompt ==
    /\ bench.pc = "judge_ready"
    /\ bench' = [bench EXCEPT
                    !.pc = "ready",
                    !.tasks_done = @ + 1,
                    !.log = @ \o <<Event("purge", "judge", bench.judge_id),
                                   Event("run", "judge", bench.judge_id)>>]
    /\ UNCHANGED <<now, dirs, files, index, run, grade, judge, lookup, scan>>

InitBench ==
    /\ now = 0
    /\ dirs = {}
    /\ files = {}
    /\ index = [d \in DirNames |-> IndexAbsent]
    /\ run = [r \in Runs |-> IdleRun]
    /\ grade = NoGrade
    /\ judge = NoJudge
    /\ lookup = NoLookup
    /\ scan = NoScan
    /\ \E model \in ModelArgs,
          agents \in SUBSET {JudgeAgentId(DefaultJudgeAgentPrefix, DefaultJudgeModel)} :
          bench = [pc |-> "start", model |-> model, agents |-> agents,
                   agent_id |-> <<>>, judge_id |-> <<>>, grading_type |-> "",
                   tasks_done |-> 0, log |-> <<>>]

NextBench ==
    \/ BenchEnsureAgent
    \/ BenchExecuteTask
    \/ BenchGradeAutomated
    \/ BenchEnsureJudgeAgent
    \/ BenchJudgePrompt
SpecBench == InitBench /\ [][NextBench]_vars

-----------------------------------------------------------------------------
(* _find_recent_session_path on any sessions directory.                    *)

MaxFiles == 3       \* transcript files of the directory
MaxMtime == 3       \* modification times run over 0..MaxMtime

\* a transcript file of the directory of IdDash
ScanFile(i, t) ==
    [dir |-> IdDash, name |-> UuidName(i), mtime |-> t, lines |-> <<"A">>, writer |-> 0]

\* the directories of at most MaxFiles files, one per name
ScanDirs ==
    {{ScanFile(i, m[i]) : i \in DOMAIN m} :
        m \in UNION {[N -> 0..MaxMtime] : N \in SUBSET (1..MaxFiles)}}

ScanStep ==
    /\ scan.pc = "start"
    /\ scan' = [scan EXCEPT
                   !.pc = "done",
                   !.out = FindRecentSessionPath(scan.agent_dir, scan.started_at, files)]
    /\ UNCHANGED <<now, dirs, files, index, run, grade, judge, lookup, bench>>

\* the directory is missing, or it exists and holds any files; the run
\* started at a time that leaves some mtimes on either side of the tolerance
InitScan ==
    /\ now = 0
    /\ dirs \in {{}, {IdDash}}
    /\ files \in (IF IdDash \in dirs THEN ScanDirs ELSE {{}})
    /\ index = [d \in DirNames |-> IndexAbsent]
    /\ run = [r \in Runs |-> IdleRun]
    /\ grade = NoGrade
    /\ judge = NoJudge
    /\ lookup = NoLookup
    /\ bench = NoBench
    /\ \E started_at \in ToleranceSeconds..(ToleranceSeconds + MaxMtime + 1) :
          scan = [pc |-> "start", agent_dir |-> IdDash,
                  started_at |-> started_at, out |-> {}]

NextScan == ScanStep
SpecScan == InitScan /\ [][NextScan]_vars

-----------------------------------------------------------------------------
(* Claims about execution and transcript resolution *)

\* C3: once the workspace is prepared, execute_openclaw_task raises nothing
\* and returns a status among success, timeout and error, whatever the
\* process did and whatever the transcript file holds.
C3_ExecuteNeverRaises ==
    \A r \in Runs :
       /\ run[r].pc = "raised" => run[r].raised_in = "prepare"
       /\ run[r].pc = "returned" => run[r].status \in {"success", "timeout", "error"}

\* C4: every result with timed_out = true has status timeout, whatever the
\* exit code, the stderr and the transcript.
C4_TimedOutIsTimeout ==
    \A r \in Runs :
       run[r].pc = "returned" /\ run[r].timed_out => run[r].status = "timeout"

\* C5: a result with an empty transcript and timed_out = false has status
\* error, also with exit code 0; status success implies a non-empty
\* transcript.
C5_EmptyTranscriptIsError ==
    \A r \in Runs :
       run[r].pc = "returned" =>
          /\ run[r].transcript = <<>> /\ ~run[r].timed_out => run[r].status = "error"
          /\ run[r].status = "success" => run[r].transcript # <<>>

C5_Witness ==
    \E r \in Runs :
       /\ run[r].pc = "returned"
       /\ run[r].transcript = <<>>
       /\ ~run[r].timed_out
       /\ run[r].exit_code = 0
       /\ run[r].status = "error"

\* C6: with the runs of an identity serialized, the transcript a run returns
\* is never a file an earlier run of that identity wrote.
C6_NeverEarlierRunsFile ==
    \A r \in Runs, q \in Runs :
       (run[r].loaded /\ q < r /\ run[q].agent = run[r].agent) => run[r].src # q

\* C7: when the agent process is about to be launched, the sessions
\* directory _load_transcript will read holds no transcript and no index
\* from before the call.  Stated for the calls whose cleanup met no unlink
\* error, where the purge had every chance to succeed.
C7_StoreCleanAtLaunch ==
    \A r \in Runs :
       (run[r].pc = "prepared" /\ ~run[r].unlink_failed) =>
          LET d == GetAgentStoreDir(run[r].agent, dirs)
          IN SessionFiles(files, d) = {} /\ index[d] = IndexAbsent

\* C8: run r took the transcript of run q, or lost its own transcript to the
\* cleanup of run q
TookFrom(r, q) == run[r].loaded /\ run[r].src = q

LostTo(r, q) ==
    /\ run[r].loaded /\ run[r].via = "none"
    /\ run[r].written = 1 /\ r \in run[q].purged

\* C8 (second half): when overlapping runs have identities of their own,
\* neither happens.
C8_OwnIdentityIsolates ==
    \A r \in Runs, q \in Runs :
       (r # q /\ run[r].agent # run[q].agent) => ~TookFrom(r, q) /\ ~LostTo(r, q)

\* C8 (first half): with a shared identity both are reachable; this is the
\* state in which a run has returned the other run's transcript.
C8_SharedIdentityTakes ==
    \E r \in Runs, q \in Runs :
       r # q /\ run[r].agent = run[q].agent /\ TookFrom(r, q)

C8_SharedIdentityLoses ==
    \E r \in Runs, q \in Runs :
       r # q /\ run[r].agent = run[q].agent /\ LostTo(r, q)

\* the polling loop can take a step
CanProbe(r) == ENABLED (ProbeFinds(r) \/ ProbeSleeps(r) \/ ProbeGivesUp(r))

NonBlankCount(lines) == Cardinality({i \in DOMAIN lines : ~IsBlank(lines[i])})

\* C9 as stated: _load_transcript returns an empty sequence exactly when no
\* strategy found a file in any of the 6 passes.
C9_EmptyIffNothingFound ==
    \A r \in Runs :
       run[r].loaded => (run[r].transcript = <<>> <=> run[r].via = "none")

\* C9 (amended): _load_transcript terminates: while it polls a pass is
\* always possible and fewer than 6 are done; it makes at most 6 passes and
\* sleeps at most 5 times, once after each pass but the last one it makes;
\* it returns an empty sequence exactly when no pass found a file or the
\* file it chose holds no non-blank line.
C9_LoadTerminates ==
    \A r \in Runs :
       /\ run[r].attempt <= MaxAttempts
       /\ run[r].sleeps <= MaxAttempts - 1
       /\ run[r].pc = "loading" =>
             /\ run[r].attempt < MaxAttempts
             /\ run[r].sleeps = run[r].attempt
             /\ CanProbe(r)
       /\ run[r].loaded =>
             /\ run[r].sleeps = run[r].attempt - 1
             /\ run[r].via = "none" => run[r].attempt = MaxAttempts
             /\ run[r].transcript = <<>> <=>
                   (run[r].via = "none" \/ NonBlankCount(run[r].src_lines) = 0)

C9_Witness ==
    \E r \in Runs :
       /\ run[r].loaded /\ run[r].via = "none"
       /\ run[r].attempt = MaxAttempts /\ run[r].sleeps = MaxAttempts - 1
       /\ run[r].transcript = <<>>

\* the position in lines of its k-th non-blank line
NthNonBlank(lines, k) ==
    CHOOSE i \in DOMAIN lines :
       /\ ~IsBlank(lines[i])
       /\ Cardinality({j \in 1..i : ~IsBlank(lines[j])}) = k

-----------------------------------------------------------------------------
(* Claims about grading *)

\* C1: every GradeResult grade_task returns has 0 <= score <= max_score,
\* for every scoring mapping, judge reply and pair of hybrid weights.
C1_ScoreWithinRange ==
    grade.pc = "returned" =>
       /\ RatLe(RatZero, grade.result.score)
       /\ RatLe(grade.result.score, grade.result.max_score)

\* C2: grade_task always returns a GradeResult and never raises.
\* Stated for the three grading modes grade_task knows.
C2_GradeNeverRaises ==
    grade.task.grading_type \in {"automated", "llm_judge", "hybrid"} =>
       grade.pc # "raised"


\* the mapping the scoring callable returned
IsScoringMap(m) ==
    /\ grade.auto.ok
    /\ grade.source.kind = "returns" /\ grade.source.ismap
    /\ grade.source.ret = m

HalfAndOne == [k \in Keys |-> IF k = <<"a">> THEN Num(10) ELSE Num(5)]
OnlyNonNumeric == [k \in Keys |-> IF k = <<"a">> THEN Str(5) ELSE Null]

\* C11: the automated score is the arithmetic mean of the numeric values of
\* the mapping the scoring callable returned, the other values being
\* ignored; an empty mapping and one without numeric values give 0;
\* {a: 1.0, b: 0.5} gives 0.75.
C11_AutomatedScoreIsMean ==
    /\ \A m \in Mappings(ScoreValues) :
          IsScoringMap(m) =>
             LET nums == {k \in DOMAIN m : m[k].t = "num"}
                 score == grade.auto.score
             IN IF nums = {} THEN score = RatZero
                ELSE score.n * 10 * Cardinality(nums) = score.d * SumOver(m, nums)
    /\ IsScoringMap(HalfAndOne) => grade.auto.score = [n |-> 3, d |-> 4]
    /\ IsScoringMap(EmptyMap) => grade.auto.score = [n |-> 0, d |-> 1]
    /\ IsScoringMap(OnlyNonNumeric) => grade.auto.score = [n |-> 0, d |-> 1]

C11_Witness ==
    /\ grade.pc = "returned" /\ grade.task.grading_type = "automated"
    /\ IsScoringMap([k \in Keys |-> IF k = <<"a">> THEN Num(10) ELSE Null])
    /\ grade.result.score = RatOne

\* C12: without a scoring source (no check text, no python fence in it, or
\* nothing inside the fence), or when the source defines no callable grade,
\* _grade_automated returns score 0, an empty breakdown and a note, and
\* does not raise.
C12_NoSourceGivesZeroWithNote ==
    (/\ grade.pc \in {"judging", "returned", "raised"}
     /\ grade.task.grading_type \in {"automated", "hybrid"}
     /\ \/ grade.task.checks \in {"none", "prose", "emptyfence"}
        \/ grade.source.kind = "no_grade")
    => /\ grade.auto.ok
       /\ grade.auto.score = RatZero
       /\ grade.auto.breakdown = EmptyMap
       /\ grade.auto.notes # NoNotes

C12_Witness ==
    /\ grade.pc = "returned" /\ grade.task.grading_type = "automated"
    /\ grade.task.checks = "code" /\ grade.source.kind = "no_grade"
    /\ grade.result.score = RatZero
    /\ grade.result.notes = <<"Automated grading function missing">>

HybridReturned == grade.pc = "returned" /\ grade.task.grading_type = "hybrid"

\* C16: the hybrid score is (automated score x automated weight + judge
\* score x judge weight) over the sum of the two weights in effect, and that
\* sum is strictly positive for all task weights; 0.8 at weight 0.3 with
\* 0.4 at weight 0.7 gives 0.52.
C16_HybridIsWeightedMean ==
    HybridReturned =>
       LET w == grade.eff
           a == grade.auto.score
           l == grade.llm.score
           score == grade.result.score
       IN /\ w.total_weight > 0
          /\ w.total_weight = w.auto_weight + w.llm_weight
          /\ score.n * (a.d * l.d * w.total_weight) =
                score.d * (a.n * l.d * w.auto_weight + l.n * a.d * w.llm_weight)
          /\ (/\ grade.task.weights.automated = Num(3)
              /\ grade.task.weights.llm_judge = Num(7)
              /\ a = [n |-> 4, d |-> 5] /\ l = [n |-> 2, d |-> 5])
             => score = [n |-> 13, d |-> 25]

C16_Witness ==
    /\ HybridReturned
    /\ grade.task.weights.automated = Num(3)
    /\ grade.task.weights.llm_judge = Num(7)
    /\ grade.auto.score = Tenths(8) /\ grade.llm.score = Tenths(4)
    /\ grade.result.score = Rat(52, 100)

\* the weight the task gives under a name, 0.5 when it gives none
TaskWeight(name) ==
    LET w == grade.task.weights
    IN IF ~w.given \/ w[name].t = "absent" THEN 5 ELSE w[name].v

\* C17 as stated: both weights are reset to 0.5 if both are non-positive,
\* and task weights of which one is positive are used unchanged.
C17_ResetOnlyWhenBothNonPositive ==
    HybridReturned =>
       LET a == TaskWeight("automated")
           l == TaskWeight("llm_judge")
       IN IF a <= 0 /\ l <= 0
          THEN grade.eff.auto_weight = 5 /\ grade.eff.llm_weight = 5
          ELSE grade.eff.auto_weight = a /\ grade.eff.llm_weight = l

\* C17 (amended): a weight the task does not specify resolves to 0.5; both
\* weights are reset to 0.5 if their sum is not positive, which includes
\* both being non-positive; task weights of positive sum are used unchanged.
C17_ResetWhenSumNotPositive ==
    HybridReturned =>
       LET a == TaskWeight("automated")
           l == TaskWeight("llm_judge")
       IN /\ IF a + l <= 0
             THEN grade.eff.auto_weight = 5 /\ grade.eff.llm_weight = 5
             ELSE grade.eff.auto_weight = a /\ grade.eff.llm_weight = l
          /\ (a <= 0 /\ l <= 0) =>
                grade.eff.auto_weight = 5 /\ grade.eff.llm_weight = 5
          /\ grade.task.weights.automated = Absent =>
                (a = 5 /\ (l > -5 => grade.eff.auto_weight = 5))

C17_Witness ==
    /\ HybridReturned
    /\ grade.task.weights.automated = Num(-5)
    /\ grade.task.weights.llm_judge = Num(3)
    /\ grade.eff.auto_weight = 5 /\ grade.eff.llm_weight = 5

-----------------------------------------------------------------------------
(* Claims about the judge's reply *)

JudgeParsed == judge.pc \in {"parsed", "graded"}

\* the block opened at position i of the reply is closed by a bare fence
\* and its content parses as an object
IsUsableFence(text, i) ==
    /\ text[i] = "F"
    /\ FirstOf(text, i + 1, {"E", "F"}) # 0
    /\ text[FirstOf(text, i + 1, {"E", "F"})] = "E"
    /\ JsonLoads(SubSeq(text, i + 1, FirstOf(text, i + 1, {"E", "F"}) - 1)).isdict

Returned(text, i, j) ==
    /\ judge.parsed.found
    /\ judge.parsed.from = i /\ judge.parsed.toks = SubSeq(text, i, j)

\* C13 as stated: whenever the reply holds a json fence whose content parses
\* as an object, that object is what _parse_judge_response returns.
C13_AnyJsonFenceIsReturned ==
    JudgeParsed =>
       \A i \in DOMAIN judge.raw_text :
          IsUsableFence(judge.raw_text, i) =>
             Returned(judge.raw_text, i + 1,
                      FirstOf(judge.raw_text, i + 1, {"E", "F"}) - 1)

\* C13 (amended): when the first json fence of the reply has content that
\* parses as an object, that object is returned, whatever braces or fences
\* come before or after it; the reply of the rubric, prose followed by the
\* fenced {"scores": {"x": 0.9}, "total": 0.9, "notes": "ok"}, gives that
\* object.
C13_FirstJsonFenceIsReturned ==
    JudgeParsed =>
       LET text == judge.raw_text
           i == FirstOf(text, 1, {"F"})
       IN /\ (i # 0 /\ IsUsableFence(text, i)) =>
                Returned(text, i + 1, FirstOf(text, i + 1, {"E", "F"}) - 1)
          /\ text = <<"w">> \o Fenced(FullObject) =>
                /\ judge.parsed.toks = FullObject
                /\ ToReply(judge.parsed) =
                      [kind |-> "obj", scores |-> [t |-> "map", v |-> 0],
                       map |-> [k \in {<<"x">>} |-> Num(9)],
                       total |-> Num(9), notes |-> Text]

C13_Witness ==
    /\ JudgeParsed
    /\ judge.raw_text = PlainObject \o Fenced(PlainObject) \o FullObject
    /\ judge.parsed.via = "fence"
    /\ judge.parsed.from = Len(PlainObject) + 2
    /\ judge.parsed.toks = PlainObject

RECURSIVE NestingDepth(_, _)
\* the nesting depth after the first k lexemes of the reply; a closing brace
\* outside any object closes nothing
NestingDepth(text, k) ==
    IF k = 0 THEN 0
    ELSE LET d == NestingDepth(text, k - 1)
         IN IF text[k] = "{" THEN d + 1
            ELSE IF text[k] = "}" /\ d > 0 THEN d - 1
            ELSE d

\* the balanced-brace substrings of the reply, outermost first: <<i, j>>
\* opens at depth 0 and closes where the depth is 0 again
BalancedSubstrings(text) ==
    {c \in (DOMAIN text) \X (DOMAIN text) :
        /\ text[c[1]] = "{" /\ NestingDepth(text, c[1] - 1) = 0
        /\ c[1] < c[2] /\ NestingDepth(text, c[2]) = 0
        /\ \A m \in c[1]..(c[2] - 1) : NestingDepth(text, m) > 0}

\* no opener of the reply is followed by text that parses as an object up
\* to the next fence, tagged or bare
NoUsableFence(text) ==
    \A i \in DOMAIN text :
       (text[i] = "F" /\ FirstOf(text, i + 1, {"E", "F"}) # 0) =>
          ~JsonLoads(SubSeq(text, i + 1, FirstOf(text, i + 1, {"E", "F"}) - 1)).isdict

\* C14: without a usable json fence the result is the last balanced-brace
\* candidate that parses as an object with a scores key, whatever follows
\* it; without any such candidate, the last one that parses as an object;
\* without that either, the empty result.  Results are compared by value.
C14_LastCandidateWithScores ==
    (JudgeParsed /\ NoUsableFence(judge.raw_text)) =>
       LET text == judge.raw_text
           loads(c) == JsonLoads(SubSeq(text, c[1], c[2]))
           with_scores == {c \in BalancedSubstrings(text) :
                              loads(c).isdict /\ "s" \in loads(c).keys}
           any_object == {c \in BalancedSubstrings(text) : loads(c).isdict}
           last(S) == CHOOSE c \in S : \A d \in S : d[1] <= c[1]
           same(c) == /\ judge.parsed.obj.keys = loads(c).keys
                      /\ judge.parsed.obj.inner = loads(c).inner
       IN IF with_scores # {} THEN same(last(with_scores))
          ELSE IF any_object # {} THEN same(last(any_object))
          ELSE judge.parsed.obj.keys = {}

\* the case of the rubric: of two objects the earlier has scores, the later
\* has not, and the earlier is returned
C14_Witness ==
    /\ JudgeParsed
    /\ judge.raw_text = FullObject \o <<"w">> \o PlainObject
    /\ judge.parsed.via = "scores"
    /\ judge.parsed.from = 1 /\ judge.parsed.toks = FullObject

\* no closing brace of the reply comes before its opening brace
NoStrayCloser ==
    \A k \in DOMAIN judge.raw_text :
       Cardinality({i \in 1..k : judge.raw_text[i] = "}"})
          <= Cardinality({i \in 1..k : judge.raw_text[i] = "{"})
\* the rule of C14 on the replies without such a brace
C14_HoldsWithoutStrayCloser == NoStrayCloser => C14_LastCandidateWithScores

\* no part of the reply parses as a JSON object (the empty reply included)
NothingParses(text) ==
    \A i \in DOMAIN text, j \in DOMAIN text : ~JsonLoads(SubSeq(text, i, j)).isdict

\* C15: when no part of the reply parses as an object, or the judge wrote
\* no text at all, parsing gives the empty result without raising and the
\* judge's GradeResult has score 0 and an explanatory note.
C15_UnparsableGivesZeroWithNote ==
    (judge.pc = "graded" /\ NothingParses(judge.raw_text)) =>
       /\ ~judge.parsed.found
       /\ judge.result.ok
       /\ judge.result.score = RatZero
       /\ judge.result.notes # NoNotes

\* what does hold: the empty result, no exception, score 0
C15_UnparsableGivesZero ==
    (judge.pc = "graded" /\ NothingParses(judge.raw_text)) =>
       /\ ~judge.parsed.found
       /\ judge.result.ok
       /\ judge.result.score = RatZero
       /\ judge.result.breakdown = EmptyMap

C15_Witness ==
    /\ judge.pc = "graded"
    /\ judge.raw_text = <<"w">> \o BrokenObject
    /\ ~judge.parsed.found
    /\ judge.result.ok /\ judge.result.score = RatZero

-----------------------------------------------------------------------------
(* Claims about the session index *)

\* the entries of the index the lookup read
Looked == index[IdDash].entries

\* entry i is stored under agent:<id>:<slot> for the identity looked up and
\* is an object with a non-empty session id
IsPreferred(i, slot) ==
    /\ Looked[i].agent = lookup.agent_id /\ Looked[i].slot = slot
    /\ Looked[i].isdict /\ Looked[i].hasSid
    /\ Looked[i].sessionId \notin {None, EmptyStr}

\* the entries that carry a session id and a numeric updatedAt
Dated == {i \in DOMAIN Looked :
             Looked[i].isdict /\ Looked[i].hasSid /\ Looked[i].hasTs}

\* C18: an entry under agent:<id>:main with a non-empty session id is
\* returned, else one under agent:<id>:default, whatever the updatedAt of
\* the others; without either, the session id of the entry with the
\* greatest updatedAt (among the entries that carry a session id).
C18_PreferredKeyThenNewest ==
    (lookup.pc = "done" /\ index[IdDash].kind = "map") =>
       LET main == {i \in DOMAIN Looked : IsPreferred(i, "main")}
           dflt == {i \in DOMAIN Looked : IsPreferred(i, "default")}
           newest == {i \in Dated :
                         \A j \in Dated : Looked[j].updatedAt <= Looked[i].updatedAt}
       IN IF main # {} THEN \E i \in main : lookup.out = Looked[i].sessionId
          ELSE IF dflt # {} THEN \E i \in dflt : lookup.out = Looked[i].sessionId
          ELSE IF newest # {} THEN \E i \in newest : lookup.out = Looked[i].sessionId
          ELSE lookup.out = None

C18_Witness ==
    /\ lookup.pc = "done" /\ lookup.agent_id = IdDash
    /\ Looked = <<Entry(IdColon, "default", SidOf(IdColon, "default"), 1),
                  Entry(IdColon, "main", SidOf(IdColon, "main"), 2)>>
    /\ lookup.out = SidOf(IdColon, "main")

-----------------------------------------------------------------------------
(* Claims about the usage totals                                           *)

\* the number of lines of the given kinds in the file a run read
CountOf(lines, kinds) == Cardinality({i \in DOMAIN lines : lines[i] \in kinds})

\* a task run that returned with totals extracted from object events only
UsageExtracted(r) ==
    /\ run[r].pc = "returned"
    /\ run[r].kind = "task"
    /\ ~run[r].usage.raised

\* C19: the totals count the assistant messages only: request_count is their
\* number and each token and cost total is the sum of that field over them,
\* a missing field counting as zero; user messages and events of other types
\* add nothing, and the totals are those of the run's own transcript alone.
C19_UsageCountsAssistantMessages ==
    \A r \in Runs : UsageExtracted(r) =>
        LET lines == run[r].src_lines
            full == CountOf(lines, {"A"})
            partial == CountOf(lines, {"a"})
            u == run[r].usage
        IN /\ u.request_count = full + partial
           /\ u.input_tokens = FullUsage["input"] * full + InputOnlyUsage["input"] * partial
           /\ u.output_tokens = FullUsage["output"] * full
           /\ u.cache_read_tokens = FullUsage["cacheRead"] * full
           /\ u.cache_write_tokens = FullUsage["cacheWrite"] * full
           /\ u.total_tokens = FullUsage["totalTokens"] * full
           /\ u.cost_usd = FullUsage["cost"] * full

\* a run that read a user message carrying usage, then an assistant message
\* whose usage holds the input field only
C19_Witness ==
    \E r \in Runs :
        /\ UsageExtracted(r)
        /\ run[r].src_lines = <<"U", "a">>
        /\ run[r].usage.request_count = 1
        /\ run[r].usage.input_tokens = 3
        /\ run[r].usage.output_tokens = 0

-----------------------------------------------------------------------------
(* Claims about the failure that propagates                                *)

\* the run raised before the agent process was launched: nothing was
\* written for it, no probing pass was made and no transcript was loaded
NeverLaunched(r) ==
    /\ run[r].written = 0
    /\ run[r].attempt = 0
    /\ ~run[r].loaded
    /\ run[r].status = ""

\* C20: a missing fixture source makes the run raise with no result, no
\* launch and no transcript resolution, and no other failure of a run
\* propagates: every run that raised did so in workspace preparation.
C20_OnlyMissingFixturePropagates ==
    \A r \in Runs :
        /\ run[r].raised_in = "prepare" => (run[r].pc = "raised" /\ NeverLaunched(r))
        /\ run[r].pc = "raised" => (run[r].raised_in = "prepare" /\ NeverLaunched(r))

\* the part about the missing fixture alone
C20_MissingFixtureStopsTheRun ==
    \A r \in Runs :
        run[r].raised_in = "prepare" => (run[r].pc = "raised" /\ NeverLaunched(r))

\* a run stopped by a missing fixture
C20_Witness ==
    \E r \in Runs :
        /\ run[r].pc = "raised"
        /\ run[r].raised_in = "prepare"
        /\ run[r].kind = "task"
        /\ NeverLaunched(r)

-----------------------------------------------------------------------------
(* Claims about the judge's identity                                       *)

\* the judge prompts issued so far, as positions of the log
JudgeRuns == {i \in DOMAIN bench.log : bench.log[i].op = "run" /\ bench.log[i].who = "judge"}

\* before the judge prompt at position i, its identity was ensured
EnsuredBefore(i) ==
    \E j \in 1..(i - 1) :
        bench.log[j].op = "ensure" /\ bench.log[j].id = bench.log[i].id

\* C21: in llm_judge and hybrid grading the judge's identity is ensured
\* before the judge prompt is issued, and the identity the judge prompt runs
\* under, whose sessions are purged for it, is never the identity of the
\* agent that executed the task.
C21_JudgeIdentityEnsuredAndDistinct ==
    /\ \A i \in JudgeRuns : EnsuredBefore(i)
    /\ \A i \in DOMAIN bench.log :
          bench.log[i].who = "judge" => bench.log[i].id # bench.agent_id

\* the part about the order alone
C21_JudgeIdentityEnsuredFirst ==
    \A i \in JudgeRuns :
        /\ EnsuredBefore(i)
        /\ bench.log[i - 1] = Event("purge", "judge", bench.log[i].id)

\* the identities differ whenever the model's slug is not the judge's own
\* suffix "judge-anthropic-claude-opus-4-5"
C21_DistinctUnlessSlugIsJudgeSuffix ==
    SlugifyModel(bench.model) # <<"judge", "-">> \o SlugifyModel(DefaultJudgeModel)
        => \A i \in DOMAIN bench.log :
              bench.log[i].who = "judge" => bench.log[i].id # bench.agent_id

\* a judge prompt was issued for a task run under another identity
C21_Witness ==
    /\ JudgeRuns # {}
    /\ bench.model = DefaultJudgeModel
    /\ bench.grading_type = "hybrid"
    /\ \A i \in JudgeRuns : bench.log[i].id # bench.agent_id

-----------------------------------------------------------------------------
(* Claims about the status rules                                           *)

\* C22: the status of a result is what the five rules give when applied in
\* order, a later rule overriding the earlier ones; read from the last rule
\* back: error if stderr holds the not-found marker, else error if the exit
\* code is neither 0 nor -1 and the run did not time out, else error if the
\* transcript is empty, else timeout if the process timed out, else success.
\* Task runs and judge prompts are classified alike.
C22_StatusIsLastRuleThatApplies ==
    \A r \in Runs :
       run[r].pc = "returned" =>
          run[r].status =
             IF run[r].stderr = NotFoundText THEN "error"
             ELSE IF run[r].exit_code \notin {0, UnknownExit} /\ ~run[r].timed_out THEN "error"
             ELSE IF run[r].transcript = <<>> THEN "error"
             ELSE IF run[r].timed_out THEN "timeout"
             ELSE "success"

\* a judge prompt that timed out and left no transcript: the empty-transcript
\* rule overrides the timeout rule
C22_Witness ==
    \E r \in Runs :
       /\ run[r].pc = "returned"
       /\ run[r].kind = "prompt"
       /\ run[r].timed_out
       /\ run[r].transcript = <<>>
       /\ run[r].stderr = ""
       /\ run[r].status = "error"

-----------------------------------------------------------------------------
(* Claims about the strategies of one probe.  A single run leaves the      *)
(* store as its successful probe saw it, so the store of a state where the *)
(* run has loaded a file is the store that probe read.                     *)

\* run r loaded the transcript of a file some probe selected
Selected(r) == run[r].loaded /\ run[r].via \in {"index", "glob", "direct"}

\* the session id the index gives for the identity of run r
IndexedId(r) == ResolveSessionIdFromStore(run[r].agent, dirs, index)

\* the index resolves an id whose transcript file exists
IndexHit(r) == Truthy(IndexedId(r)) /\ HasFile(files, run[r].agent_dir, IndexedId(r))

\* the transcript files of the directory run r reads
Candidates(r) == SessionFiles(files, run[r].agent_dir)

\* C23: in a probe the strategies have a fixed priority: when the index
\* resolves an id whose file exists that file is chosen, also when another
\* file of the directory is more recent; the directory scan is used only
\* otherwise; the caller's session id only when both fail.
C23_StrategiesInPriority ==
    \A r \in Runs : Selected(r) =>
        /\ IndexHit(r) =>
              /\ run[r].via = "index"
              /\ run[r].src = TheFile(files, run[r].agent_dir, IndexedId(r)).writer
              /\ run[r].src_lines = TheFile(files, run[r].agent_dir, IndexedId(r)).lines
        /\ run[r].via = "glob" => ~IndexHit(r)
        /\ run[r].via = "direct" => (~IndexHit(r) /\ Candidates(r) = {})

\* the index-resolved file was chosen although the directory holds a file
\* modified later
C23_Witness ==
    \E r \in Runs :
        /\ Selected(r)
        /\ IndexHit(r)
        /\ run[r].via = "index"
        /\ \E g \in Candidates(r) :
              g.mtime > TheFile(files, run[r].agent_dir, IndexedId(r)).mtime

-----------------------------------------------------------------------------
(* Claims about the directory scan                                         *)

\* the transcript files of the scanned directory
Scanned == SessionFiles(files, scan.agent_dir)

\* those modified no earlier than 5 seconds before the start of the run
RecentlyModified == {f \in Scanned : scan.started_at - f.mtime <= ToleranceSeconds}

\* f is a most recently modified file of S
NewestOf(f, S) == f \in S /\ \A g \in S : f.mtime >= g.mtime

\* C24: the scan returns the most recently modified of the files modified
\* no earlier than 5 seconds before the start when there is one, else the
\* most recently modified file of the directory when it holds any, and
\* nothing only when the directory is missing or holds no transcript file.
C24_ScanReturnsNewestRecentElseNewest ==
    scan.pc = "done" =>
        /\ RecentlyModified # {} =>
              (scan.out # {} /\ \A f \in scan.out : NewestOf(f, RecentlyModified))
        /\ (RecentlyModified = {} /\ Scanned # {}) =>
              (scan.out # {} /\ \A f \in scan.out : NewestOf(f, Scanned))
        /\ scan.out = {} <=> (IdDash \notin dirs \/ Scanned = {})

\* no file is recent, two stale files differ in age, the newer is returned
C24_Witness ==
    /\ scan.pc = "done"
    /\ RecentlyModified = {}
    /\ \E f, g \in Scanned : f.mtime < g.mtime /\ scan.out = {g}

-----------------------------------------------------------------------------
(* Claims about the brace scan                                             *)

\* the candidates the scan of the reply collects, as <<first, last>>
Collected ==
    LET json_candidates == ScanBraces(judge.raw_text, 1, 0, 0, <<>>, <<>>)
    IN {<<json_candidates[n].from,
          json_candidates[n].from + Len(json_candidates[n].toks) - 1>> :
           n \in DOMAIN json_candidates}

\* C25: for every text the scan collects every balanced top-level brace
\* substring as a candidate: the depth it tracks never goes below zero, so
\* a stray closing brace earlier in the text does not keep a later
\* well-formed object from being collected.
C25_ScanCollectsEveryBalancedSubstring ==
    JudgeParsed =>
        /\ \A k \in 0..Len(judge.raw_text) : BraceDepth(judge.raw_text, k) >= 0
        /\ Collected = BalancedSubstrings(judge.raw_text)

\* on the replies where no closing brace comes before its opening brace
C25_HoldsWithoutStrayCloser ==
    NoStrayCloser => C25_ScanCollectsEveryBalancedSubstring

\* two objects apart, both collected
C25_Witness ==
    /\ JudgeParsed
    /\ judge.raw_text = FullObject \o <<"w">> \o PlainObject
    /\ Collected = {<<1, Len(FullObject)>>,
                    <<Len(FullObject) + 2, Len(FullObject) + 1 + Len(PlainObject)>>}

-----------------------------------------------------------------------------
(* Claims about the judge's grade                                          *)

\* the judge part of grade_task returned a grade for the parsed reply
JudgeGraded ==
    /\ grade.pc = "returned"
    /\ grade.task.grading_type \in {"llm_judge", "hybrid"}
    /\ grade.llm.ok

\* C26: when the parsed reply has no total (the key is missing or null) the
\* judge's score is the mean of the numeric values of its scores, 0 when
\* there are none; a total that is there is the score; missing notes are
\* the empty string.
C26_TotalElseMeanOfScores ==
    JudgeGraded =>
        LET parsed == grade.parsed
            nums == {k \in DOMAIN parsed.map : parsed.map[k].t = "num"}
            score == grade.llm.score
        IN /\ parsed.total.t \in {"absent", "null"} =>
                 IF nums = {} THEN score = RatZero
                 ELSE score.n * 10 * Cardinality(nums) = score.d * SumOver(parsed.map, nums)
           /\ parsed.total.t \in {"num", "str"} =>
                 score.n * 10 = score.d * parsed.total.v
           /\ parsed.notes.t = "absent" => grade.llm.notes = NoNotes

\* a reply without total and notes whose scores are 1.0 and "0.5": the
\* score is the mean of the one number
C26_Witness ==
    /\ JudgeGraded
    /\ grade.task.grading_type = "llm_judge"
    /\ grade.parsed.total = Absent
    /\ grade.parsed.notes = Absent
    /\ grade.parsed.map = [k \in Keys |-> IF k = <<"a">> THEN Num(10) ELSE Str(5)]
    /\ grade.result.score = RatOne
    /\ grade.result.notes = NoNotes

-----------------------------------------------------------------------------
(* Claims about a malformed session index                                  *)

\* the sessions.json the lookups of run r read
StoreIndex(r) == index[GetAgentStoreDir(run[r].agent, dirs)]

\* the store as it would be with that sessions.json absent
WithoutIndex(r) ==
    [index EXCEPT ![GetAgentStoreDir(run[r].agent, dirs)] = IndexAbsent]

\* what a probe of run r selects with no index present
SelectsWithoutIndex(r) ==
    ProbeOnce(run[r].agent, SessName(r), run[r].agent_dir, run[r].started_at,
              dirs, files, WithoutIndex(r))

\* run r fares as it would with no index: it did not raise in the lookup,
\* and what it loaded is what a probe without index selects
AsWithoutIndex(r) ==
    /\ run[r].raised_in # "index"
    /\ run[r].loaded =>
          IF Selected(r)
          THEN \E sel \in SelectsWithoutIndex(r) :
                  /\ sel.via = run[r].via
                  /\ sel.file.writer = run[r].src
                  /\ sel.file.lines = run[r].src_lines
          ELSE SelectsWithoutIndex(r) = {}

\* C27: a session index that is not valid JSON, or is valid JSON but not a
\* mapping, is treated like an absent one: the lookup yields nothing and
\* raises nothing, and _load_transcript selects the file it would select
\* with no index present.
C27_MalformedIndexIsAbsent ==
    \A r \in Runs :
        StoreIndex(r).kind \in {"invalid", "undecodable", "notmap"} => AsWithoutIndex(r)

\* the same for the malformed indexes that are text
C27_HoldsWhenDecodable ==
    \A r \in Runs :
        StoreIndex(r).kind \in {"invalid", "notmap"} => AsWithoutIndex(r)

\* a run that found its transcript by the scan beside an index that is not
\* valid JSON
C27_Witness ==
    \E r \in Runs :
        /\ Selected(r)
        /\ StoreIndex(r) = IndexInvalid
        /\ run[r].via = "glob"
        /\ run[r].src = r

-----------------------------------------------------------------------------
(* Claims about the caller's session id                                    *)

\* the file named after the session id the caller passed lies in the
\* directory run r reads
HasSessionFile(r) == HasFile(files, run[r].agent_dir, SessName(r))

\* C28: in a probe over an unchanged directory the caller's session id is
\* never the strategy that selects: whenever <session_id>.jsonl exists the
\* scan has returned a file, so the transcript comes from the index-resolved
\* file or from a most recently modified file of the scan.
C28_SessionIdNeverSelects ==
    \A r \in Runs :
        /\ run[r].via # "direct"
        /\ (run[r].pc = "loading" /\ HasSessionFile(r)) =>
              FindRecentSessionPath(run[r].agent_dir, run[r].started_at, files) # {}
        /\ Selected(r) =>
              \/ run[r].via = "index" /\ IndexHit(r)
              \/ /\ run[r].via = "glob"
                 /\ \E f \in Candidates(r) :
                       /\ f.writer = run[r].src /\ f.lines = run[r].src_lines
                       /\ \A g \in Candidates(r) :
                             g.mtime > f.mtime =>
                                run[r].started_at - g.mtime > ToleranceSeconds

\* the process wrote under the session id it was given and the index names
\* no file: the scan found the transcript
C28_Witness ==
    \E r \in Runs :
        /\ Selected(r)
        /\ HasSessionFile(r)
        /\ TheFile(files, run[r].agent_dir, SessName(r)).writer = r
        /\ ~IndexHit(r)
        /\ run[r].via = "glob"
        /\ run[r].src = r

-----------------------------------------------------------------------------
(* Claims about the probe that succeeds                                    *)

\* a step in which run r makes a probe
Probes(r) == run[r].pc = "loading" /\ run'[r].attempt = run[r].attempt + 1

\* the step leaves run r with the transcript of a file it selected
FindsNow(r) == run'[r].loaded /\ run'[r].via \in {"index", "glob", "direct"}

\* C29: _load_transcript reads the file of the first probe in which a
\* strategy succeeds: a probe made when a transcript lies in the run's
\* sessions directory finds one, within the 6 probes; after the probe that
\* succeeded no probe or sleep follows and what was loaded stays, also when
\* the index or the indexed file appears later.
C29_FirstSuccessfulProbeWins ==
    [][\A r \in Runs :
          /\ (Probes(r) /\ Candidates(r) # {}) =>
                (FindsNow(r) /\ run'[r].attempt <= MaxAttempts)
          /\ run[r].loaded => run'[r] = [run[r] EXCEPT !.written = run'[r].written]
      ]_vars

\* the same for the probes whose index lookup does not raise
C29_HoldsWhenIndexDecodable ==
    [][\A r \in Runs :
          /\ (Probes(r) /\ Candidates(r) # {}
                /\ ~ResolveRaises(run[r].agent, dirs, index)) =>
                (FindsNow(r) /\ run'[r].attempt <= MaxAttempts)
          /\ run[r].loaded => run'[r] = [run[r] EXCEPT !.written = run'[r].written]
      ]_vars

\* the scan chose the old transcript on the third probe; the process wrote
\* its own transcript and the index entry for it after the return, and the
\* run keeps what it loaded
C29_Witness ==
    \E r \in Runs :
        /\ run[r].pc = "returned"
        /\ run[r].via = "glob"
        /\ run[r].src = 0
        /\ run[r].written = 1
        /\ IndexHit(r)
        /\ TheFile(files, run[r].agent_dir, IndexedId(r)).writer = r

-----------------------------------------------------------------------------
(* Claims about the breakdown of the automated grade                       *)

\* a value of a breakdown, in tenths (its denominator divides 10)
TenthsOf(q) == q.n * (10 \div q.d)

RECURSIVE SumOfBreakdown(_, _)
SumOfBreakdown(b, K) ==
    IF K = {} THEN 0
    ELSE LET k == CHOOSE x \in K : TRUE
         IN TenthsOf(b[k]) + SumOfBreakdown(b, K \ {k})

\* the mean of the values of a breakdown, 0 for an empty one
MeanOfBreakdown(b) ==
    IF DOMAIN b = {} THEN RatZero
    ELSE Rat(SumOfBreakdown(b, DOMAIN b), 10 * Cardinality(DOMAIN b))

NumberAndNumericString == [k \in Keys |-> IF k = <<"a">> THEN Num(10) ELSE Str(5)]

\* C30: for every mapping the scoring callable returns, the breakdown of the
\* automated grade holds exactly the entries averaged into its score, so
\* the score is the mean of the breakdown's values (0 for an empty
\* breakdown), numeric strings and booleans included.
C30_ScoreIsMeanOfBreakdown ==
    \A m \in Mappings(ScoreValues) :
        IsScoringMap(m) =>
            /\ DOMAIN grade.auto.breakdown = {k \in DOMAIN m : IsNumber(m[k])}
            /\ grade.auto.score = MeanOfBreakdown(grade.auto.breakdown)

\* C30 (amended): the breakdown holds the entries whose value float()
\* accepts, each with its value: those averaged into the score and the
\* numeric strings beside them, which the score does not count; the score
\* is the mean of the breakdown's values when the mapping holds no numeric
\* string.
C30_BreakdownIsFloatableEntries ==
    \A m \in Mappings(ScoreValues) :
        IsScoringMap(m) =>
            LET b == grade.auto.breakdown
                numbers == {k \in DOMAIN m : m[k].t = "num"}
                strings == {k \in DOMAIN m : m[k].t = "str"}
            IN /\ DOMAIN b = numbers \cup strings
               /\ \A k \in DOMAIN b : TenthsOf(b[k]) = m[k].v
               /\ grade.auto.score =
                     MeanOfBreakdown([k \in numbers |-> b[k]])
               /\ strings = {} => grade.auto.score = MeanOfBreakdown(b)

\* {a: 1.0, b: "0.5"}: the score is 1.0, the breakdown holds both entries
C30_Witness ==
    /\ grade.pc = "returned" /\ grade.task.grading_type = "automated"
    /\ IsScoringMap(NumberAndNumericString)
    /\ grade.result.score = RatOne
    /\ DOMAIN grade.result.breakdown = Keys
    /\ grade.result.breakdown[<<"b">>] = [n |-> 1, d |-> 2]

====
